---- MODULE Spec2Model ----
(***************************************************************************)
(* Model of the job supervisor and of the preview file server of DLCut     *)
(* (src-tauri/src/commands.rs, ytdlp.rs, ffmpeg.rs, fileserver.rs).        *)
(*                                                                         *)
(* start_download and cancel_download are Tauri commands that run on a     *)
(* multi-threaded tokio runtime, so calls interleave at every point where  *)
(* they do not hold the slot lock.  Each start_download call that passes   *)
(* the slot check spawns a forwarding task and a download task; job j is   *)
(* the job created by call j.  A step of a task runs from one await to the *)
(* next.                                                                   *)
(*                                                                         *)
(* Spec is the slot workload: every start_download and cancel_download     *)
(* call, with child processes that print no progress line.  SpecStream is  *)
(* the stream workload: one start_download call, every cancel_download     *)
(* call, and a child that prints up to MaxLines progress lines.  SpecCut   *)
(* is one cut_video call, SpecJob one download followed by one cut of the  *)
(* downloaded file, and SpecServe one connection to the file server.       *)
(***************************************************************************)
EXTENDS Integers, Sequences, FiniteSets, TLC

\* ------------------------------------------------------------- bounds
MaxStarts == 2
MaxCancels == 2
MaxLines == 2
MaxCutLines == 2
\* the lines of any text read from one ffmpeg run
MaxCutTexts == 1
\* the longest served file, and the largest number in a Range header
MaxFileLen == 3
MaxRangeNum == 4
\* the stop() calls the owner of a file server makes, and the connections clients
\* attempt
MaxStops == 2
\* the lines of any text read from one yt-dlp run
MaxDownloadTexts == 2
MaxConnects == 2
\* the progress lines of a long download, more than the channel holds
MaxBurst == 34
\* what an operating-system pipe holds before a write to it blocks, and the
\* writes a child process makes before it exits
PipeCapacity == 2
MaxChildWrites == 5

\* tokio::sync::mpsc::channel::<ProgressUpdate>(32)
ChannelCapacity == 32

Starts == 1..MaxStarts
Jobs == Starts
Cancels == 1..MaxCancels

\* the percentages the external process may announce on a progress line
LinePercents == {30, 100}

\* Option<JoinHandle<()>>: None is 0, Some(handle of job j) is j
None == 0

\* the lock of AppState.active_download is free (0) or held by a cancel_download
\* call.  The guards of start_download and of the download task span one slot
\* operation each and are modelled as one step that needs the lock free; the
\* guard of cancel_download spans the take and the abort, two steps.
Free == 0

VARIABLES
    active_download, \* AppState.active_download: None or the job whose handle it holds
    lock,            \* the cancel_download call that holds the slot lock, or Free
    startPc,         \* position of each start_download call
    startRes,        \* what each start_download call returned
    cancelPc,        \* position of each cancel_download call
    cancelRes,       \* what each cancel_download call returned
    cancelHeld,      \* the handle a cancel_download call took out of the slot
    task,            \* position of each job's download task
    abortReq,        \* JoinHandle::abort() was called on the job's task
    proc,            \* the job's yt-dlp child process
    chan,            \* content of the job's bounded progress channel
    fwd,             \* state of the job's forwarding task
    sentLog,         \* history: every update the job sent into its channel
    hostEvents,      \* history: every event of the job emitted to the host
    cutInput,        \* cut_video: whether input_path exists, and total_us
    cutPc,           \* position of the cut_video call
    cutProcs,        \* history: every ffmpeg spawn of the cut job, with its fate
    cutSent,         \* history: every update the cut job sent to progress_tx
    cutRes,          \* what cut_video returned
    cutLines,        \* history: every line read from ffmpeg, and the update sent for it
    dlLines,         \* history: every line read from yt-dlp, and the update sent for it
    dlSent,          \* history: every update the read loop of download_video sent
    servedFile,      \* the file at the server's file_path: whether it exists, its length
    request,         \* the text the client sends on the connection, as lines
    connPc,          \* position of handle_connection
    range,           \* Option<(start, end)> parsed from the request
    remaining,       \* bytes of the window still to be written
    filePos,         \* read position in the opened file
    fileOpened,      \* history: File::open was called
    respHead,        \* what handle_connection wrote before the body
    respBody,        \* the file offsets whose bytes were written as the body
    serverHandle,    \* the FileServer value FileServer::start returned
    runPc,           \* position of the task FileServer::run
    shutdown,        \* the watch channel: its value, and whether run has yet to see it
    stopLog,         \* history: what the send of each stop() call returned
    backlog,         \* connections made to the listener and not accepted yet
    accepted,        \* history: how many connections run has accepted
    connAtExit,      \* history: where the followed connection was when run exited
    pipePc,          \* position of a function that spawned a child with piped output
    childPc,         \* what that child process does next
    stdoutPipe,      \* what the child's stdout pipe holds
    stderrPipe,      \* what the child's stderr pipe holds
    childWrites      \* history: how many writes the child has made

pipeVars == <<pipePc, childPc, stdoutPipe, stderrPipe, childWrites>>
textVars == <<dlLines, dlSent, pipeVars>>
cutVars == <<cutInput, cutPc, cutProcs, cutSent, cutRes, cutLines>>
listenVars == <<serverHandle, runPc, shutdown, stopLog, backlog, accepted, connAtExit>>
serveVars == <<servedFile, request, connPc, range, remaining, filePos, fileOpened,
               respHead, respBody, listenVars>>

vars == <<active_download, lock, startPc, startRes, cancelPc, cancelRes, cancelHeld,
          task, abortReq, proc, chan, fwd, sentLog, hostEvents, textVars, cutVars,
          serveVars>>

startVars == <<startPc, startRes>>
cancelVars == <<cancelPc, cancelRes, cancelHeld>>
jobVars == <<task, proc, chan, fwd, sentLog, hostEvents>>
downloadVars == <<active_download, lock, startVars, cancelVars, abortReq, jobVars, textVars>>

\* ------------------------------------------------------------- values
\* ProgressUpdate { stage, percent, message, .. }
Update(stage, percent, message) ==
    [stage |-> stage, percent |-> percent, message |-> message]

\* app.emit(name, payload)
Event(name, payload) == [name |-> name, payload |-> payload]

NoPayload == Update("", 0, "")

\* AppError::DownloadError(text).to_string()
DownloadError(text) == "Download failed: " \o text

\* the job task's Err(e) arm: an Error-stage progress event, then download-error
ErrorEvents(text) ==
    << Event("progress", Update("Error", 0, DownloadError(text))),
       Event("download-error", Update("", 0, DownloadError(text))) >>

StartingUpdate == Update("Downloading", 0, "Starting download...")
LineUpdate(p) == Update("Downloading", p, "Downloading...")
CompleteUpdate == Update("Complete", 100, "Download complete!")

TaskEnded(j) == task[j] \in {"finished", "dropped"}
TaskLive(j) == task[j] \in {"start", "read", "wait", "clear_lock"}

\* progress lines the job has parsed so far
LinesParsed(j) == Cardinality({i \in 1..Len(sentLog[j]) : sentLog[j][i].message = "Downloading..."})

\* AppState::default(), and the start_download calls the host is going to issue;
\* Init, at the specifications below, makes every one of them
InitCalls(calls) ==
    /\ active_download = None
    /\ lock = Free
    /\ startPc = [c \in Starts |-> IF c \in calls THEN "idle" ELSE "unused"]
    /\ startRes = [c \in Starts |-> "none"]
    /\ cancelPc = [k \in Cancels |-> "idle"]
    /\ cancelRes = [k \in Cancels |-> "none"]
    /\ cancelHeld = [k \in Cancels |-> None]
    /\ task = [j \in Jobs |-> "none"]
    /\ abortReq = [j \in Jobs |-> FALSE]
    /\ proc = [j \in Jobs |-> "none"]
    /\ chan = [j \in Jobs |-> <<>>]
    /\ fwd = [j \in Jobs |-> "none"]
    /\ sentLog = [j \in Jobs |-> <<>>]
    /\ hostEvents = [j \in Jobs |-> <<>>]
    /\ dlLines = <<>>
    /\ dlSent = <<>>
    /\ pipePc = "none"
    /\ childPc = "none"
    /\ stdoutPipe = 0
    /\ stderrPipe = 0
    /\ childWrites = 0

\* ------------------------------------------------------ start_download
\* faulty variant of StartCheck: the channel and the tasks are created before the slot
\* is checked
StartCheckSpawnFirst(c) ==
    /\ startPc[c] = "idle"
    /\ lock = Free
    /\ chan' = [chan EXCEPT ![c] = <<>>]
    /\ fwd' = [fwd EXCEPT ![c] = "running"]
    /\ task' = [task EXCEPT ![c] = "start"]
    /\ IF active_download # None
       THEN /\ startPc' = [startPc EXCEPT ![c] = "done"]
            /\ startRes' = [startRes EXCEPT ![c] = "AlreadyInProgress"]
       ELSE /\ startPc' = [startPc EXCEPT ![c] = "store"]
            /\ UNCHANGED startRes
    /\ UNCHANGED <<cutVars, serveVars, textVars, active_download, lock, cancelVars, abortReq, proc, sentLog, hostEvents>>

\* faulty variant of StartCheck: the guard of the slot check is not scoped and is
\* still held, by the start_download call, after the tasks are spawned
StartCheckKeepsGuard(c) ==
    /\ startPc[c] = "idle"
    /\ \E valid \in BOOLEAN :
        IF ~valid
        THEN /\ startPc' = [startPc EXCEPT ![c] = "done"]
             /\ startRes' = [startRes EXCEPT ![c] = "InvalidUrl"]
             /\ UNCHANGED <<task, fwd, chan, lock>>
        ELSE /\ lock = Free
             /\ IF active_download # None
                THEN /\ startPc' = [startPc EXCEPT ![c] = "done"]
                     /\ startRes' = [startRes EXCEPT ![c] = "AlreadyInProgress"]
                     /\ UNCHANGED <<task, fwd, chan, lock>>
                ELSE /\ startPc' = [startPc EXCEPT ![c] = "store"]
                     /\ chan' = [chan EXCEPT ![c] = <<>>]
                     /\ fwd' = [fwd EXCEPT ![c] = "running"]
                     /\ task' = [task EXCEPT ![c] = "start"]
                     /\ lock' = MaxCancels + c
                     /\ UNCHANGED startRes
    /\ UNCHANGED <<cutVars, serveVars, textVars, active_download, cancelVars, abortReq, proc, sentLog,
                   hostEvents>>

\* validate_youtube_url and the slot check under its guard; when the slot is
\* empty the channel is created and the forwarding task and the download task
\* are spawned.  The handle is not stored yet.
StartCheck(c) ==
    /\ startPc[c] = "idle"
    /\ \E valid \in BOOLEAN :
        IF ~valid
        THEN /\ startPc' = [startPc EXCEPT ![c] = "done"]
             /\ startRes' = [startRes EXCEPT ![c] = "InvalidUrl"]
             /\ UNCHANGED <<task, fwd, chan>>
        ELSE /\ lock = Free
             /\ IF active_download # None
                THEN /\ startPc' = [startPc EXCEPT ![c] = "done"]
                     /\ startRes' = [startRes EXCEPT ![c] = "AlreadyInProgress"]
                     /\ UNCHANGED <<task, fwd, chan>>
                ELSE /\ startPc' = [startPc EXCEPT ![c] = "store"]
                     /\ chan' = [chan EXCEPT ![c] = <<>>]
                     /\ fwd' = [fwd EXCEPT ![c] = "running"]
                     /\ task' = [task EXCEPT ![c] = "start"]
                     /\ UNCHANGED startRes
    /\ UNCHANGED <<cutVars, serveVars, textVars, active_download, lock, cancelVars, abortReq, proc, sentLog,
                   hostEvents>>

\* the second guard: *active = Some(handle); Ok(())
StartStore(c) ==
    /\ startPc[c] = "store"
    /\ lock = Free
    /\ active_download' = c
    /\ startPc' = [startPc EXCEPT ![c] = "done"]
    /\ startRes' = [startRes EXCEPT ![c] = "Ok"]
    /\ UNCHANGED <<cutVars, serveVars, textVars, lock, cancelVars, jobVars, abortReq>>

\* ----------------------------------------------------- cancel_download
\* faulty variant of CancelTake: the handle is read with as_ref() and stays in the slot
CancelTakeKeepsHandle(k) ==
    /\ cancelPc[k] = "idle"
    /\ lock = Free
    /\ IF active_download # None
       THEN /\ cancelHeld' = [cancelHeld EXCEPT ![k] = active_download]
            /\ lock' = k
            /\ cancelPc' = [cancelPc EXCEPT ![k] = "abort"]
            /\ UNCHANGED <<active_download, cancelRes>>
       ELSE /\ cancelPc' = [cancelPc EXCEPT ![k] = "done"]
            /\ cancelRes' = [cancelRes EXCEPT ![k] = "Cancelled"]
            /\ UNCHANGED <<active_download, lock, cancelHeld>>
    /\ UNCHANGED <<cutVars, serveVars, textVars, startVars, jobVars, abortReq>>

\* faulty variant of CancelTake: an empty slot is answered with Ok(())
CancelTakeEmptyOk(k) ==
    /\ cancelPc[k] = "idle"
    /\ lock = Free
    /\ IF active_download # None
       THEN /\ cancelHeld' = [cancelHeld EXCEPT ![k] = active_download]
            /\ active_download' = None
            /\ lock' = k
            /\ cancelPc' = [cancelPc EXCEPT ![k] = "abort"]
            /\ UNCHANGED cancelRes
       ELSE /\ cancelPc' = [cancelPc EXCEPT ![k] = "done"]
            /\ cancelRes' = [cancelRes EXCEPT ![k] = "Ok"]
            /\ UNCHANGED <<active_download, lock, cancelHeld>>
    /\ UNCHANGED <<cutVars, serveVars, textVars, startVars, jobVars, abortReq>>

\* lock().await and active.take(): Some(handle) goes on to the abort with the
\* guard held, None returns Err(Cancelled)
CancelTake(k) ==
    /\ cancelPc[k] = "idle"
    /\ lock = Free
    /\ IF active_download # None
       THEN /\ cancelHeld' = [cancelHeld EXCEPT ![k] = active_download]
            /\ active_download' = None
            /\ lock' = k
            /\ cancelPc' = [cancelPc EXCEPT ![k] = "abort"]
            /\ UNCHANGED cancelRes
       ELSE /\ cancelPc' = [cancelPc EXCEPT ![k] = "done"]
            /\ cancelRes' = [cancelRes EXCEPT ![k] = "Cancelled"]
            /\ UNCHANGED <<active_download, lock, cancelHeld>>
    /\ UNCHANGED <<cutVars, serveVars, textVars, startVars, jobVars, abortReq>>

\* handle.abort(); Ok(()) and the guard is dropped
CancelAbort(k) ==
    /\ cancelPc[k] = "abort"
    /\ lock = k
    /\ abortReq' = [abortReq EXCEPT ![cancelHeld[k]] = TRUE]
    /\ lock' = Free
    /\ cancelPc' = [cancelPc EXCEPT ![k] = "done"]
    /\ cancelRes' = [cancelRes EXCEPT ![k] = "Ok"]
    /\ UNCHANGED <<cutVars, serveVars, textVars, active_download, startVars, cancelHeld, jobVars>>

\* --------------------------------------------------- the download task
\* faulty variant of TaskFail: the result notification is emitted first
TaskFailResultFirst(j, text) ==
    /\ hostEvents' = [hostEvents EXCEPT ![j] =
                         @ \o << ErrorEvents(text)[2], ErrorEvents(text)[1] >>]
    /\ task' = [task EXCEPT ![j] = "clear_lock"]

\* what the task's async block does with Err(e) of download_video: two emits,
\* then the lock of the slot clear is awaited
TaskFail(j, text) ==
    /\ hostEvents' = [hostEvents EXCEPT ![j] = @ \o ErrorEvents(text)]
    /\ task' = [task EXCEPT ![j] = "clear_lock"]

\* faulty variant of Send: with a full channel the update is given up (try_send)
SendDropsWhenFull(j, update) ==
    /\ chan' = [chan EXCEPT ![j] = IF Len(@) < ChannelCapacity THEN Append(@, update) ELSE @]
    /\ sentLog' = [sentLog EXCEPT ![j] = Append(@, update)]

\* progress_tx.send(update).await with room in the channel
Send(j, update) ==
    /\ Len(chan[j]) < ChannelCapacity
    /\ chan' = [chan EXCEPT ![j] = Append(@, update)]
    /\ sentLog' = [sentLog EXCEPT ![j] = Append(@, update)]

\* first poll of the task: download_video sends the "Starting download..." update
\* and spawns the child with piped stdout and stderr, or the spawn fails
TaskBegin(j) ==
    /\ task[j] = "start"
    /\ Send(j, StartingUpdate)
    /\ \E ok \in BOOLEAN :
        IF ok
        THEN /\ proc' = [proc EXCEPT ![j] = "running"]
             /\ task' = [task EXCEPT ![j] = "read"]
             /\ UNCHANGED hostEvents
        ELSE /\ TaskFail(j, "Failed to start yt-dlp")
             /\ UNCHANGED proc
    /\ UNCHANGED <<cutVars, serveVars, textVars, active_download, lock, startVars, cancelVars, abortReq, fwd>>

\* one read_until of the loop yields a progress line: it is parsed and sent
TaskReadLine(j) ==
    /\ task[j] = "read"
    /\ LinesParsed(j) < MaxLines
    /\ \E p \in LinePercents : Send(j, LineUpdate(p))
    /\ UNCHANGED <<cutVars, serveVars, textVars, active_download, lock, startVars, cancelVars, task, abortReq, proc,
                   fwd, hostEvents>>

\* the same turn of the loop in a long download: the lines keep coming
BurstPercents == {30}
TaskReadBurst(j) ==
    /\ task[j] = "read"
    /\ Len(sentLog[j]) < MaxBurst
    /\ \E p \in BurstPercents : Send(j, LineUpdate(p))
    /\ UNCHANGED <<cutVars, serveVars, textVars, active_download, lock, startVars, cancelVars, task, abortReq, proc,
                   fwd, hostEvents>>

\* read_until yields 0 bytes and the loop is left, or it fails and download_video
\* returns Err.  (A line the pattern does not match changes nothing.)
TaskReadEnd(j) ==
    /\ task[j] = "read"
    /\ \/ /\ task' = [task EXCEPT ![j] = "wait"]
          /\ UNCHANGED hostEvents
       \/ TaskFail(j, "Failed to read output")
    /\ UNCHANGED <<cutVars, serveVars, textVars, active_download, lock, startVars, cancelVars, abortReq, proc, chan,
                   fwd, sentLog>>

\* child.wait(): the child exits; with status 0 the Complete update is sent,
\* download_video returns Ok and the task emits download-complete; with another
\* status, or when the wait itself fails, download_video returns Err
TaskWait(j) ==
    /\ task[j] = "wait"
    /\ \/ /\ proc' = [proc EXCEPT ![j] = "exit_zero"]
          /\ Send(j, CompleteUpdate)
          /\ hostEvents' = [hostEvents EXCEPT ![j] = Append(@, Event("download-complete", NoPayload))]
          /\ task' = [task EXCEPT ![j] = "clear_lock"]
       \/ /\ proc' = [proc EXCEPT ![j] = "exit_nonzero"]
          /\ TaskFail(j, "Download failed")
          /\ UNCHANGED <<chan, sentLog>>
       \/ /\ TaskFail(j, "Failed to wait for yt-dlp")
          /\ UNCHANGED <<proc, chan, sentLog>>
    /\ UNCHANGED <<cutVars, serveVars, textVars, active_download, lock, startVars, cancelVars, abortReq, fwd>>

\* the task's guard: *active = None; the block ends and the senders are dropped
TaskClear(j) ==
    /\ task[j] = "clear_lock"
    /\ lock = Free
    /\ active_download' = None
    /\ task' = [task EXCEPT ![j] = "finished"]
    /\ UNCHANGED <<cutVars, serveVars, textVars, lock, startVars, cancelVars, abortReq, proc, chan, fwd, sentLog,
                   hostEvents>>

\* an aborted task is dropped by the runtime at an await where it is suspended;
\* a task that is being polled runs on to its next suspension.  Dropping the
\* future drops the senders and the Child, and the Child is not killed
\* (Command without kill_on_drop).
TaskDrop(j) ==
    /\ abortReq[j]
    /\ TaskLive(j)
    /\ task' = [task EXCEPT ![j] = "dropped"]
    /\ UNCHANGED <<cutVars, serveVars, textVars, active_download, lock, startVars, cancelVars, abortReq, proc,
                   chan, fwd, sentLog, hostEvents>>

\* a child that is no longer supervised (its task ended without waiting for
\* it) exits by itself, with a status nobody reads
ProcExit(j) ==
    /\ proc[j] = "running"
    /\ TaskEnded(j)
    /\ proc' = [proc EXCEPT ![j] = "exited"]
    /\ UNCHANGED <<cutVars, serveVars, textVars, active_download, lock, startVars, cancelVars, task, abortReq,
                   chan, fwd, sentLog, hostEvents>>

\* ------------------------------------------------- the forwarding task
\* faulty variant of Forward: the newest update of the channel is taken first
ForwardNewestFirst(j) ==
    /\ fwd[j] = "running"
    /\ IF chan[j] # <<>>
       THEN /\ hostEvents' = [hostEvents EXCEPT ![j] = Append(@, Event("progress", chan[j][Len(chan[j])]))]
            /\ chan' = [chan EXCEPT ![j] = SubSeq(@, 1, Len(@) - 1)]
            /\ UNCHANGED fwd
       ELSE /\ TaskEnded(j)
            /\ fwd' = [fwd EXCEPT ![j] = "done"]
            /\ UNCHANGED <<chan, hostEvents>>
    /\ UNCHANGED <<cutVars, serveVars, textVars, active_download, lock, startVars, cancelVars, task, abortReq, proc,
                   sentLog>>

\* faulty variant of Forward: a sender outlives a task that was aborted
ForwardSenderOutlivesAbort(j) ==
    /\ fwd[j] = "running"
    /\ IF chan[j] # <<>>
       THEN /\ hostEvents' = [hostEvents EXCEPT ![j] = Append(@, Event("progress", Head(chan[j])))]
            /\ chan' = [chan EXCEPT ![j] = Tail(@)]
            /\ UNCHANGED fwd
       ELSE /\ task[j] = "finished"
            /\ fwd' = [fwd EXCEPT ![j] = "done"]
            /\ UNCHANGED <<chan, hostEvents>>
    /\ UNCHANGED <<cutVars, serveVars, textVars, active_download, lock, startVars, cancelVars, task, abortReq, proc,
                   sentLog>>

\* while let Some(progress) = rx.recv().await { emit("progress", &progress) }
\* recv yields None once the channel is empty and every sender is dropped
Forward(j) ==
    /\ fwd[j] = "running"
    /\ IF chan[j] # <<>>
       THEN /\ hostEvents' = [hostEvents EXCEPT ![j] = Append(@, Event("progress", Head(chan[j])))]
            /\ chan' = [chan EXCEPT ![j] = Tail(@)]
            /\ UNCHANGED fwd
       ELSE /\ TaskEnded(j)
            /\ fwd' = [fwd EXCEPT ![j] = "done"]
            /\ UNCHANGED <<chan, hostEvents>>
    /\ UNCHANGED <<cutVars, serveVars, textVars, active_download, lock, startVars, cancelVars, task, abortReq, proc,
                   sentLog>>

\* ---------------------------------------------------------------- text
\* Option<T>: None is the empty sequence, Some(x) the sequence of x
Nothing == <<>>
Some(x) == << x >>

\* Text is a sequence of characters; the text the client sends is a sequence
\* of lines, as request.lines() yields them.
UpperCase == << "A", "B", "C", "D", "E", "F", "G", "H", "I", "J", "K", "L", "M",
                "N", "O", "P", "Q", "R", "S", "T", "U", "V", "W", "X", "Y", "Z" >>
LowerCase == << "a", "b", "c", "d", "e", "f", "g", "h", "i", "j", "k", "l", "m",
                "n", "o", "p", "q", "r", "s", "t", "u", "v", "w", "x", "y", "z" >>
DecimalDigits == << "0", "1", "2", "3", "4", "5", "6", "7", "8", "9" >>
Whitespace == { " " }

\* str::to_lowercase
ToLowerChar(c) ==
    IF \E i \in 1..26 : UpperCase[i] = c
    THEN LowerCase[CHOOSE i \in 1..26 : UpperCase[i] = c]
    ELSE c
to_lowercase(s) == [i \in 1..Len(s) |-> ToLowerChar(s[i])]

\* str::starts_with
starts_with(s, prefix) ==
    Len(s) >= Len(prefix) /\ SubSeq(s, 1, Len(prefix)) = prefix

\* str::splitn(2, c), all of its items: the text before the first c and the
\* text after it, or the whole text when it holds no c
splitn2(s, c) ==
    IF \E i \in 1..Len(s) : s[i] = c
    THEN LET first == CHOOSE i \in 1..Len(s) :
                          s[i] = c /\ \A k \in 1..(i - 1) : s[k] # c
         IN << SubSeq(s, 1, first - 1), SubSeq(s, first + 1, Len(s)) >>
    ELSE << s >>

\* str::trim
RECURSIVE trim(_)
trim(s) ==
    IF s = <<>> THEN s
    ELSE IF s[1] \in Whitespace THEN trim(Tail(s))
    ELSE IF s[Len(s)] \in Whitespace THEN trim(SubSeq(s, 1, Len(s) - 1))
    ELSE s

\* str::strip_prefix
strip_prefix(s, prefix) ==
    IF starts_with(s, prefix) THEN Some(SubSeq(s, Len(prefix) + 1, Len(s))) ELSE Nothing

RECURSIVE DecimalValue(_)
DecimalValue(digits) ==
    IF digits = <<>> THEN 0
    ELSE DecimalValue(SubSeq(digits, 1, Len(digits) - 1)) * 10
         + (CHOOSE d \in 0..9 : DecimalDigits[d + 1] = digits[Len(digits)])

\* str::parse::<u64>().ok(): an optional "+", then one decimal digit or more.
\* (A numeral of 2^64 or more fails to parse; the requests below hold none.)
parse_u64(s) ==
    LET digits == IF s # <<>> /\ s[1] = "+" THEN Tail(s) ELSE s
    IN IF /\ digits # <<>>
          /\ \A i \in 1..Len(digits) : \E d \in 1..10 : DecimalDigits[d] = digits[i]
       THEN Some(DecimalValue(digits))
       ELSE Nothing

\* the decimal numeral of n
RECURSIVE Dec(_)
Dec(n) ==
    IF n < 10 THEN << DecimalDigits[n + 1] >>
    ELSE Dec(n \div 10) \o << DecimalDigits[(n % 10) + 1] >>

\* ------------------------------------- download_video: the progress lines
\* the character classes \s, \d and \w of the pattern, on the characters the
\* lines below hold
Digits == {DecimalDigits[i] : i \in 1..10}
WordChars == Digits \cup {UpperCase[i] : i \in 1..26} \cup {LowerCase[i] : i \in 1..26}
                 \cup {"_"}

\* the end of the longest run of characters of a class that starts at from;
\* from - 1 when the run is empty
RunEnd(line, from, class) ==
    CHOOSE k \in (from - 1)..Len(line) :
        /\ \A m \in from..k : line[m] \in class
        /\ k = Len(line) \/ line[k + 1] \notin class
RunEndNot(line, from, class) ==
    CHOOSE k \in (from - 1)..Len(line) :
        /\ \A m \in from..k : line[m] \notin class
        /\ k = Len(line) \/ line[k + 1] \in class

\* the literal lit stands at place at
Matches(line, at, lit) ==
    at + Len(lit) - 1 <= Len(line) /\ SubSeq(line, at, at + Len(lit) - 1) = lit

DownloadTag == << "[", "d", "o", "w", "n", "l", "o", "a", "d", "]" >>
EtaWord == << "E", "T", "A" >>

\* (\d+\.?\d*) at from: the place of its last character, 0 when it does not match
PercentEnd(line, from) ==
    LET d == RunEnd(line, from, Digits)
    IN IF d < from THEN 0
       ELSE IF d < Len(line) /\ line[d + 1] = "." THEN RunEnd(line, d + 2, Digits)
       ELSE d

\* (\d+\.?\d*\w+/s) at from: the place of its last character, 0 when it does
\* not match
SpeedEnd(line, from) ==
    LET d == RunEnd(line, from, Digits)
        w == IF d >= from /\ d < Len(line) /\ line[d + 1] = "."
             THEN RunEnd(line, d + 2, WordChars)
             ELSE RunEnd(line, from, WordChars)
        least == IF d >= from /\ d < Len(line) /\ line[d + 1] = "." THEN d + 2 ELSE from + 1
    IN IF d >= from /\ w >= least /\ Matches(line, w + 1, << "/", "s" >>) THEN w + 2 ELSE 0

\* the first place at or after from where ETA\s matches, 0 when there is none
EtaAt(line, from) ==
    LET places == {j \in from..Len(line) :
                      /\ Matches(line, j, EtaWord)
                      /\ j + 3 <= Len(line)
                      /\ line[j + 3] \in Whitespace}
    IN IF places = {} THEN 0 ELSE CHOOSE j \in places : \A k \in places : j <= k

\* the place after the % of \[download\]\s+(\d+\.?\d*)% matched at place i, 0
\* when it does not match there
AfterPercent(line, i) ==
    IF ~Matches(line, i, DownloadTag) THEN 0
    ELSE LET first == RunEnd(line, i + Len(DownloadTag), Whitespace) + 1
         IN IF first = i + Len(DownloadTag) \/ PercentEnd(line, first) = 0 THEN 0
            ELSE IF Matches(line, PercentEnd(line, first) + 1, << "%" >>)
            THEN PercentEnd(line, first) + 2
            ELSE 0

\* progress_regex.captures(line), for the pattern
\*   \[download\]\s+(\d+\.?\d*)%.*?(\d+\.?\d*\w+/s)?.*?ETA\s+(\S+)?
\* The match starts at the leftmost place where the pattern matches.  There the
\* first .*? takes nothing, since the pattern then matches with or without the
\* second group: the second group is captured only when it matches right after
\* the %, and ETA\s must follow somewhere.
ProgressRegexCaptures(line) ==
    LET starts == {i \in 1..Len(line) :
                      AfterPercent(line, i) # 0 /\ EtaAt(line, AfterPercent(line, i)) # 0}
    IN IF starts = {} THEN Nothing
       ELSE LET i == CHOOSE a \in starts : \A b \in starts : a <= b
                q == AfterPercent(line, i)
                first == RunEnd(line, i + Len(DownloadTag), Whitespace) + 1
                speedEnd == IF SpeedEnd(line, q) # 0 /\ EtaAt(line, SpeedEnd(line, q) + 1) # 0
                            THEN SpeedEnd(line, q) ELSE 0
                eta == IF speedEnd # 0 THEN EtaAt(line, speedEnd + 1) ELSE EtaAt(line, q)
                etaFirst == RunEnd(line, eta + 3, Whitespace) + 1
            IN Some([percent |-> SubSeq(line, first, q - 2),
                     speed |-> IF speedEnd = 0 THEN Nothing
                               ELSE Some(SubSeq(line, q, speedEnd)),
                     eta |-> IF RunEndNot(line, etaFirst, Whitespace) < etaFirst
                             THEN Nothing
                             ELSE Some(SubSeq(line, etaFirst,
                                              RunEndNot(line, etaFirst, Whitespace)))])

\* str::parse::<f64>() of the text of the first group, in tenths: the lines
\* below hold numerals with at most one decimal, which an f64 of this size holds
\* to the tenth
ParsePercent(text) ==
    LET parts == splitn2(text, ".")
    IN DecimalValue(parts[1]) * 10
       + (IF Len(parts) = 2 /\ parts[2] # <<>> THEN DecimalValue(<< parts[2][1] >>) ELSE 0)

\* ProgressUpdate { stage: Downloading, percent, message, speed, eta } of a
\* line; the percent is kept in tenths
DownloadingUpdate(caps) ==
    [stage |-> "Downloading",
     percent_tenths |-> ParsePercent(caps.percent),
     message |-> "Downloading... " \o ToString(ParsePercent(caps.percent) \div 10) \o "."
                     \o ToString(ParsePercent(caps.percent) % 10) \o "%",
     speed |-> caps.speed,
     eta |-> caps.eta]

\* the lines yt-dlp --newline may print
PercentNumerals == { << "0", ".", "0" >>, << "4", "2", ".", "5" >>, << "1", "0", "0" >>, << "1", "0", "0", ".", "0" >>, << "1", "5", "0", ".", "0" >> }
SizeText == << " ", "o", "f", " ", "1", "0", ".", "0", "0", "M", "i", "B" >>
SpeedText == << "1", ".", "2", "0", "M", "i", "B", "/", "s" >>
EtaText == << "0", "0", ":", "0", "5" >>
LineWithAll(n) ==
    DownloadTag \o << " ", " " >> \o n \o << "%" >> \o SizeText \o << " ", "a", "t", " " >>
        \o SpeedText \o << " " >> \o EtaWord \o << " " >> \o EtaText
LineWithoutEta(n) ==
    DownloadTag \o << " " >> \o n \o << "%" >> \o SizeText \o << " ", "a", "t", " " >> \o SpeedText
LineWithoutSpeed(n) ==
    DownloadTag \o << " " >> \o n \o << "%" >> \o SizeText \o << " " >> \o EtaWord
        \o << " " >> \o EtaText
LineSpeedAtPercent(n) ==
    DownloadTag \o << " " >> \o n \o << "%" >> \o SpeedText \o << " " >> \o EtaWord
        \o << " " >> \o EtaText
OtherDownloadLines ==
    { DownloadTag \o << " ", "D", "e", "s", "t", "i", "n", "a", "t", "i", "o", "n", ":", " ", "v", "i", "d", "e", "o", ".", "m", "p", "4" >>,
      DownloadTag \o << "4", "2", ".", "5" >> \o << "%", " " >> \o EtaWord \o << " " >> \o EtaText,
      << "[", "M", "e", "r", "g", "e", "r", "]", " ", "M", "e", "r", "g", "i", "n", "g", " ", "f", "o", "r", "m", "a", "t", "s" >>,
      <<>> }
DownloadLineTexts ==
    {LineWithAll(n) : n \in PercentNumerals}
        \cup {LineWithoutEta(n) : n \in PercentNumerals}
        \cup {LineWithoutSpeed(n) : n \in PercentNumerals}
        \cup {LineSpeedAtPercent(n) : n \in PercentNumerals}
        \cup OtherDownloadLines

\* one turn of the read loop: read_until yields a line, and the line that the
\* pattern matches has its update sent
DownloadReadText ==
    /\ Len(dlLines) < MaxDownloadTexts
    /\ \E line \in DownloadLineTexts :
         LET caps == ProgressRegexCaptures(line)
         IN /\ dlSent' = IF caps = Nothing THEN dlSent
                          ELSE Append(dlSent, DownloadingUpdate(caps[1]))
            /\ dlLines' = Append(dlLines,
                                 [text |-> line,
                                  at |-> IF caps = Nothing THEN 0 ELSE Len(dlSent) + 1])
    /\ UNCHANGED <<active_download, lock, startVars, cancelVars, abortReq, jobVars,
                   cutVars, serveVars, pipeVars>>

\* ------------------------------- the pipes between a job and its child
\* download_video, cut_video and cut_video_reencode spawn their child with
\* .stdout(Stdio::piped()).stderr(Stdio::piped()), read stdout to its end and
\* then wait for the child.  The stderr handle stays in the Child and is never
\* read.  A pipe holds PipeCapacity units; a write to a full pipe blocks.
PipeFrame ==
    UNCHANGED <<dlLines, dlSent, active_download, lock, startVars, cancelVars, abortReq,
                jobVars, cutVars, serveVars>>

\* cmd.spawn(), which may fail, and child.stdout.take()
PipeSpawn ==
    /\ pipePc = "none"
    /\ \/ pipePc' = "read" /\ childPc' = "running"
       \/ pipePc' = "failed" /\ UNCHANGED childPc
    /\ UNCHANGED <<stdoutPipe, stderrPipe, childWrites>>
    /\ PipeFrame

\* the child goes on to its next write, to stdout or to stderr, or exits, which
\* closes its ends of the pipes
ChildStep ==
    /\ childPc = "running"
    /\ \/ /\ childWrites < MaxChildWrites
          /\ childPc' \in {"write_stdout", "write_stderr"}
       \/ childPc' = "exited"
    /\ UNCHANGED <<pipePc, stdoutPipe, stderrPipe, childWrites>>
    /\ PipeFrame

\* write(1, ..) of the child: it returns once the pipe has room; when the read
\* end is closed it fails and the child gives up
ChildWriteStdout ==
    /\ childPc = "write_stdout"
    /\ IF pipePc = "failed"
       THEN childPc' = "exited" /\ UNCHANGED <<stdoutPipe, childWrites>>
       ELSE /\ stdoutPipe < PipeCapacity
            /\ stdoutPipe' = stdoutPipe + 1
            /\ childWrites' = childWrites + 1
            /\ childPc' = "running"
    /\ UNCHANGED <<pipePc, stderrPipe>>
    /\ PipeFrame

\* write(2, ..) of the child
ChildWriteStderr ==
    /\ childPc = "write_stderr"
    /\ IF pipePc = "failed"
       THEN childPc' = "exited" /\ UNCHANGED <<stderrPipe, childWrites>>
       ELSE /\ stderrPipe < PipeCapacity
            /\ stderrPipe' = stderrPipe + 1
            /\ childWrites' = childWrites + 1
            /\ childPc' = "running"
    /\ UNCHANGED <<pipePc, stdoutPipe>>
    /\ PipeFrame

\* one read of the loop (read_until, next_line): it takes what stdout holds,
\* sees the end of stdout once the child has closed it, or fails, which returns
\* Err and drops the Child with its pipes; with nothing to take and the child
\* alive it does not return
PipeRead ==
    /\ pipePc = "read"
    /\ \/ /\ stdoutPipe > 0
          /\ stdoutPipe' = stdoutPipe - 1
          /\ UNCHANGED pipePc
       \/ /\ stdoutPipe = 0
          /\ childPc = "exited"
          /\ pipePc' = "wait"
          /\ UNCHANGED stdoutPipe
       \/ /\ pipePc' = "failed"
          /\ UNCHANGED stdoutPipe
    /\ UNCHANGED <<childPc, stderrPipe, childWrites>>
    /\ PipeFrame

\* child.wait().await returns once the child has exited
PipeWait ==
    /\ pipePc = "wait"
    /\ childPc = "exited"
    /\ pipePc' = "done"
    /\ UNCHANGED <<childPc, stdoutPipe, stderrPipe, childWrites>>
    /\ PipeFrame

\* ----------------------------------------------------------- cut_video
\* AppError::CutError(text).to_string()
CutError(text) == "Failed to cut video: " \o text

\* duration * 1_000_000, the clip duration end_time - start_time in
\* microseconds, of the cut_video calls
CutDurations == {0 - 100, 0, 200}

\* x as u64, for a float x: the cast saturates, so a negative value gives 0
AsU64(x) == IF x < 0 THEN 0 ELSE x

\* the input of a cut_video call: whether input_path exists, the duration, and
\* total_us
CutInput(exists, duration_us) ==
    [exists |-> exists, duration_us |-> duration_us, total_us |-> AsU64(duration_us)]

\* the values N of the lines "out_time_ms=N" ffmpeg may print
CutTimes == {100, 300}

\* the percentage of a progress line; with the durations and times above the
\* division is exact
CutPercent(time_ms, total_us) ==
    IF total_us > 0
    THEN IF (time_ms * 100) \div total_us < 100 THEN (time_ms * 100) \div total_us ELSE 100
    ELSE 0

\* Regex::new(r"out_time_ms=(\d+)").captures(line): the leftmost place where
\* the marker is followed by a digit, and the longest run of digits there
OutTimeMarker == << "o", "u", "t", "_", "t", "i", "m", "e", "_", "m", "s", "=" >>
IsDigit(c) == \E d \in 1..10 : DecimalDigits[d] = c
TimeRegexCaptures(line) ==
    LET matches == {i \in 1..Len(line) :
                       /\ i + Len(OutTimeMarker) <= Len(line)
                       /\ SubSeq(line, i, i + Len(OutTimeMarker) - 1) = OutTimeMarker
                       /\ IsDigit(line[i + Len(OutTimeMarker)])}
    IN IF matches = {} THEN Nothing
       ELSE LET first == (CHOOSE i \in matches : \A k \in matches : i <= k)
                             + Len(OutTimeMarker)
                last == CHOOSE k \in first..Len(line) :
                            /\ \A m \in first..k : IsDigit(line[m])
                            /\ k = Len(line) \/ ~IsDigit(line[k + 1])
            IN Some(SubSeq(line, first, last))

\* the lines ffmpeg -progress pipe:1 may print: out_time_ms=N alone, after and
\* before other text, and lines that do not hold the marker with a number
OutTimeLine(t) == OutTimeMarker \o Dec(t)
CutLineTexts ==
    {OutTimeLine(t) : t \in CutTimes \cup {0}}
        \cup {<< "x", " " >> \o OutTimeLine(t) \o << " ", "f", "p", "s">> : t \in CutTimes}
        \cup { OutTimeMarker,
               OutTimeMarker \o << "N", "/", "A" >>,
               OutTimeMarker \o << "-" >> \o Dec(100),
               << "o", "u", "t", "_", "t", "i", "m", "e", "_", "u", "s", "=" >> \o Dec(100),
               << "f", "r", "a", "m", "e", "=" >> \o Dec(100),
               <<>> }

CutStartingUpdate == Update("Cutting", 0, "Starting video cut...")
CuttingUpdate(percent) ==
    Update("Cutting", percent, "Cutting video... " \o ToString(percent) \o "%")
ReencodeStartingUpdate ==
    Update("Cutting", 0, "Re-encoding video (this may take longer)...")
ReencodingUpdate(percent) ==
    Update("Cutting", percent, "Re-encoding... " \o ToString(percent) \o "%")
CutCompleteUpdate == Update("Complete", 100, "Cut complete!")

\* Command::spawn() of ffmpeg: the spawned process, or the failed spawn, and how
\* the reading of its stdout ended ("open" until it has)
FfmpegSpawn(codec, ok) ==
    [codec |-> codec, exit |-> IF ok THEN "running" ELSE "spawn_failed",
     read |-> IF ok THEN "open" ELSE "none"]

\* progress lines parsed so far from the stream-copy run and from the
\* re-encoding run
CutLinesParsed ==
    Cardinality({i \in 1..Len(cutSent) :
                    \E p \in 0..100 : cutSent[i] = CuttingUpdate(p)})
ReencodeLinesParsed ==
    Cardinality({i \in 1..Len(cutSent) :
                    \E p \in 0..100 : cutSent[i] = ReencodingUpdate(p)})

\* let _ = progress_tx.send(update).await
CutSend(update) == cutSent' = Append(cutSent, update)

\* return res
CutReturn(res) ==
    /\ cutRes' = res
    /\ cutPc' = "done"

\* no cut_video call is made
NoCut ==
    /\ cutInput = CutInput(FALSE, 0)
    /\ cutPc = "unused"
    /\ cutProcs = <<>>
    /\ cutSent = <<>>
    /\ cutRes = "none"
    /\ cutLines = <<>>

\* one cut_video call is going to be made
InitCutCall ==
    /\ cutInput \in {CutInput(e, d) : e \in BOOLEAN, d \in CutDurations}
    /\ cutPc = "start"
    /\ cutProcs = <<>>
    /\ cutSent = <<>>
    /\ cutRes = "none"
    /\ cutLines = <<>>

\* faulty variant of CutWait: the re-encoding run follows every exit status
CutWaitAlwaysReencodes ==
    /\ cutPc = "wait"
    /\ \/ /\ \E status \in {"zero", "nonzero"} :
                cutProcs' = [cutProcs EXCEPT ![Len(cutProcs)].exit = status]
          /\ cutPc' = "reencode"
          /\ UNCHANGED <<cutSent, cutRes>>
       \/ /\ CutReturn(CutError("Failed to wait for ffmpeg"))
          /\ UNCHANGED <<cutProcs, cutSent>>
    /\ UNCHANGED <<cutInput, cutLines, downloadVars, serveVars>>

\* cut_video up to the spawn: the input must exist, the "Starting video cut..."
\* update is sent and ffmpeg is spawned with -c copy
CutStart ==
    /\ cutPc = "start"
    /\ IF ~cutInput.exists
       THEN /\ CutReturn(CutError("Input file not found"))
            /\ UNCHANGED <<cutProcs, cutSent>>
       ELSE /\ CutSend(CutStartingUpdate)
            /\ \E ok \in BOOLEAN :
                 /\ cutProcs' = Append(cutProcs, FfmpegSpawn("copy", ok))
                 /\ IF ok
                    THEN cutPc' = "read" /\ UNCHANGED cutRes
                    ELSE CutReturn(CutError("Failed to start ffmpeg"))
    /\ UNCHANGED <<cutInput, cutLines, downloadVars, serveVars>>

\* faulty variant of CutLinePercent: the percentage is not capped
CutLinePercentNoCap(line, total_us) ==
    LET caps == TimeRegexCaptures(line)
        time_ms == IF caps = Nothing THEN Nothing ELSE parse_u64(caps[1])
    IN IF time_ms = Nothing THEN Nothing
       ELSE Some(IF total_us > 0 THEN (time_ms[1] * 100) \div total_us ELSE 0)

\* the body of the read loops up to the send: the percentage of a line, if the
\* line holds one
CutLinePercent(line, total_us) ==
    LET caps == TimeRegexCaptures(line)
        time_ms == IF caps = Nothing THEN Nothing ELSE parse_u64(caps[1])
    IN IF time_ms = Nothing THEN Nothing
       ELSE Some(CutPercent(time_ms[1], total_us))

\* the update of the loop of cut_video (codec copy) and of cut_video_reencode
CutUpdateFor(codec, percent) ==
    IF codec = "copy" THEN CuttingUpdate(percent) ELSE ReencodingUpdate(percent)

\* one turn of a read loop on the line that next_line yielded
CutLoopTurn(line, codec) ==
    /\ cutSent' = IF CutLinePercent(line, cutInput.total_us) = Nothing THEN cutSent
                  ELSE Append(cutSent,
                              CutUpdateFor(codec, CutLinePercent(line, cutInput.total_us)[1]))
    /\ UNCHANGED <<cutInput, cutPc, cutProcs, cutRes, downloadVars, serveVars>>

\* what the history keeps of a line: its text, the loop that read it, and the
\* place in cutSent of the update sent for it, 0 when none was sent
LineRead(line, codec) ==
    [text |-> line, codec |-> codec,
     at |-> IF CutLinePercent(line, cutInput.total_us) = Nothing THEN 0
            ELSE Len(cutSent) + 1]
LinesReadBy(codec) ==
    Cardinality({i \in 1..Len(cutLines) : cutLines[i].codec = codec})

\* next_line yields a line with out_time_ms=N: the percentage is sent
CutReadLine ==
    /\ cutPc = "read"
    /\ CutLinesParsed < MaxCutLines
    /\ \E t \in CutTimes : CutLoopTurn(OutTimeLine(t), "copy")
    /\ UNCHANGED cutLines

\* next_line yields any line ffmpeg may print
CutReadText ==
    /\ cutPc = "read"
    /\ LinesReadBy("copy") < MaxCutTexts
    /\ \E line \in CutLineTexts :
         /\ CutLoopTurn(line, "copy")
         /\ cutLines' = Append(cutLines, LineRead(line, "copy"))

\* next_line yields None and the loop is left, or it fails and cut_video
\* returns Err
CutReadEnd ==
    /\ cutPc = "read"
    /\ \/ /\ cutProcs' = [cutProcs EXCEPT ![Len(cutProcs)].read = "eof"]
          /\ cutPc' = "wait"
          /\ UNCHANGED cutRes
       \/ /\ cutProcs' = [cutProcs EXCEPT ![Len(cutProcs)].read = "error"]
          /\ CutReturn(CutError("Failed to read ffmpeg output"))
    /\ UNCHANGED <<cutInput, cutSent, cutLines, downloadVars, serveVars>>

\* child.wait() of the stream-copy run: status 0 sends the Complete update and
\* returns Ok(output_path); another status hands over to cut_video_reencode; a
\* failed wait returns Err
CutWait ==
    /\ cutPc = "wait"
    /\ \/ /\ cutProcs' = [cutProcs EXCEPT ![Len(cutProcs)].exit = "zero"]
          /\ CutSend(CutCompleteUpdate)
          /\ CutReturn("Ok(output_path)")
       \/ /\ cutProcs' = [cutProcs EXCEPT ![Len(cutProcs)].exit = "nonzero"]
          /\ cutPc' = "reencode"
          /\ UNCHANGED <<cutSent, cutRes>>
       \/ /\ CutReturn(CutError("Failed to wait for ffmpeg"))
          /\ UNCHANGED <<cutProcs, cutSent>>
    /\ UNCHANGED <<cutInput, cutLines, downloadVars, serveVars>>

\* faulty variant of CutReencodeWait: status 0 returns Ok(output_path) without
\* the Complete update
CutReencodeWaitNoComplete ==
    /\ cutPc = "re_wait"
    /\ \/ /\ cutProcs' = [cutProcs EXCEPT ![Len(cutProcs)].exit = "zero"]
          /\ CutReturn("Ok(output_path)")
          /\ UNCHANGED cutSent
       \/ /\ cutProcs' = [cutProcs EXCEPT ![Len(cutProcs)].exit = "nonzero"]
          /\ CutReturn(CutError("ffmpeg encoding failed"))
          /\ UNCHANGED cutSent
       \/ /\ CutReturn(CutError("Failed to wait for ffmpeg"))
          /\ UNCHANGED <<cutProcs, cutSent>>
    /\ UNCHANGED <<cutInput, cutLines, downloadVars, serveVars>>

\* cut_video_reencode up to the spawn: the "Re-encoding video..." update is sent
\* and ffmpeg is spawned with -c:v libx264
CutReencodeStart ==
    /\ cutPc = "reencode"
    /\ CutSend(ReencodeStartingUpdate)
    /\ \E ok \in BOOLEAN :
         /\ cutProcs' = Append(cutProcs, FfmpegSpawn("libx264", ok))
         /\ IF ok
            THEN cutPc' = "re_read" /\ UNCHANGED cutRes
            ELSE CutReturn(CutError("Failed to start ffmpeg"))
    /\ UNCHANGED <<cutInput, cutLines, downloadVars, serveVars>>

\* next_line of the re-encoding run yields a line with out_time_ms=N
CutReencodeReadLine ==
    /\ cutPc = "re_read"
    /\ ReencodeLinesParsed < MaxCutLines
    /\ \E t \in CutTimes : CutLoopTurn(OutTimeLine(t), "libx264")
    /\ UNCHANGED cutLines

\* next_line of the re-encoding run yields any line ffmpeg may print
CutReencodeReadText ==
    /\ cutPc = "re_read"
    /\ LinesReadBy("libx264") < MaxCutTexts
    /\ \E line \in CutLineTexts :
         /\ CutLoopTurn(line, "libx264")
         /\ cutLines' = Append(cutLines, LineRead(line, "libx264"))

\* next_line().await.ok().flatten() is None: end of output, or a read error
\* that is taken for the end of output
CutReencodeReadEnd ==
    /\ cutPc = "re_read"
    /\ \E end \in {"eof", "error"} :
         cutProcs' = [cutProcs EXCEPT ![Len(cutProcs)].read = end]
    /\ cutPc' = "re_wait"
    /\ UNCHANGED <<cutInput, cutSent, cutRes, cutLines, downloadVars, serveVars>>

\* child.wait() of the re-encoding run: status 0 sends the Complete update and
\* returns Ok(output_path); another status returns CutError
CutReencodeWait ==
    /\ cutPc = "re_wait"
    /\ \/ /\ cutProcs' = [cutProcs EXCEPT ![Len(cutProcs)].exit = "zero"]
          /\ CutSend(CutCompleteUpdate)
          /\ CutReturn("Ok(output_path)")
       \/ /\ cutProcs' = [cutProcs EXCEPT ![Len(cutProcs)].exit = "nonzero"]
          /\ CutReturn(CutError("ffmpeg encoding failed"))
          /\ UNCHANGED cutSent
       \/ /\ CutReturn(CutError("Failed to wait for ffmpeg"))
          /\ UNCHANGED <<cutProcs, cutSent>>
    /\ UNCHANGED <<cutInput, cutLines, downloadVars, serveVars>>

\* ------------------------------------------------ the preview file server
\* let mut chunk = vec![0u8; 64 * 1024]
ChunkLen == 65536

\* u64::saturating_sub(1)
saturating_sub1(n) == IF n > 0 THEN n - 1 ELSE 0

\* A u64 is written pow64 * 2^64 + plus.  The number n >= 0 is Num(n);
\* WrappingU64(n) is n reduced modulo 2^64, for -2^64 <= n < 2^64.
Num(n) == [pow64 |-> 0, plus |-> n]
WrappingU64(n) == [pow64 |-> IF n < 0 THEN 1 ELSE 0, plus |-> n]

\* format!("{}", length)
FormatU64(v) == IF v.pow64 = 1 THEN "2^64" \o ToString(v.plus) ELSE ToString(v.plus)

\* length > 0
Positive(v) == v.pow64 = 1 \/ v.plus > 0

\* (length as usize).min(chunk.len())
ToRead(v) == IF v.pow64 = 1 \/ v.plus > ChunkLen THEN ChunkLen ELSE v.plus

\* match ext.to_lowercase().as_str() { .. }
ContentType(ext) ==
    LET lower == to_lowercase(ext)
    IN IF lower \in { << "m", "p", "4" >>, << "m", "4", "v" >> } THEN "video/mp4"
       ELSE IF lower = << "m", "k", "v" >> THEN "video/x-matroska"
       ELSE IF lower = << "a", "v", "i" >> THEN "video/x-msvideo"
       ELSE IF lower = << "m", "o", "v" >> THEN "video/quicktime"
       ELSE IF lower = << "w", "e", "b", "m" >> THEN "video/webm"
       ELSE IF lower = << "f", "l", "v" >> THEN "video/x-flv"
       ELSE IF lower = << "w", "m", "v" >> THEN "video/x-ms-wmv"
       ELSE "application/octet-stream"

\* faulty variant of ParseRangeLine: the header name is matched as written
ParseRangeLineCaseSensitive(line, file_size) ==
    IF ~starts_with(line, << "R", "a", "n", "g", "e", ":" >>)
    THEN Nothing
    ELSE LET val == trim(splitn2(line, ":")[2])
             bytes_str == strip_prefix(val, << "b", "y", "t", "e", "s", "=" >>)
         IN IF bytes_str = Nothing THEN Nothing
            ELSE LET parts == splitn2(bytes_str[1], "-")
                     start == parse_u64(parts[1])
                 IN IF start = Nothing THEN Nothing
                    ELSE IF Len(parts) = 2 /\ parts[2] # <<>>
                    THEN LET last == parse_u64(parts[2])
                         IN IF last = Nothing THEN Nothing
                            ELSE IF last[1] < saturating_sub1(file_size)
                            THEN Some(<< start[1], last[1] >>)
                            ELSE Some(<< start[1], saturating_sub1(file_size) >>)
                    ELSE Some(<< start[1], saturating_sub1(file_size) >>)

\* the closure of find_map, applied to one line of the request: Some((start,
\* end)) for a Range line that parses, None for every other line
ParseRangeLine(line, file_size) ==
    IF ~starts_with(to_lowercase(line), << "r", "a", "n", "g", "e", ":" >>)
    THEN Nothing
    ELSE LET val == trim(splitn2(line, ":")[2])
             bytes_str == strip_prefix(val, << "b", "y", "t", "e", "s", "=" >>)
         IN IF bytes_str = Nothing THEN Nothing
            ELSE LET parts == splitn2(bytes_str[1], "-")
                     start == parse_u64(parts[1])
                 IN IF start = Nothing THEN Nothing
                    ELSE IF Len(parts) = 2 /\ parts[2] # <<>>
                    THEN LET last == parse_u64(parts[2])
                         IN IF last = Nothing THEN Nothing
                            ELSE IF last[1] < saturating_sub1(file_size)
                            THEN Some(<< start[1], last[1] >>)
                            ELSE Some(<< start[1], saturating_sub1(file_size) >>)
                    ELSE Some(<< start[1], saturating_sub1(file_size) >>)

\* request.lines().find_map(..): the first line that yields Some
RECURSIVE find_map(_, _)
find_map(lines, file_size) ==
    IF lines = <<>> THEN Nothing
    ELSE IF ParseRangeLine(Head(lines), file_size) # Nothing
    THEN ParseRangeLine(Head(lines), file_size)
    ELSE find_map(Tail(lines), file_size)

\* faulty variant of StatusAndWindow: a request without a range is answered as
\* the range of the whole file
StatusAndWindowAlwaysPartial(rng, file_size) ==
    LET start == IF rng # Nothing THEN rng[1][1] ELSE 0
        last == IF rng # Nothing THEN rng[1][2] ELSE saturating_sub1(file_size)
    IN [status_line |-> << "HTTP/1.1 206 Partial Content",
                           "Content-Range: bytes " \o ToString(start) \o "-"
                               \o ToString(last) \o "/" \o ToString(file_size) >>,
        start |-> start,
        length |-> WrappingU64(last - start + 1)]

\* let (status_line, start, length) = match range { .. }; the two lines of the
\* status_line of a range are kept apart
StatusAndWindow(rng, file_size) ==
    IF rng # Nothing
    THEN [status_line |-> << "HTTP/1.1 206 Partial Content",
                             "Content-Range: bytes " \o ToString(rng[1][1]) \o "-"
                                 \o ToString(rng[1][2]) \o "/" \o ToString(file_size) >>,
          start |-> rng[1][1],
          length |-> WrappingU64(rng[1][2] - rng[1][1] + 1)]
    ELSE [status_line |-> << "HTTP/1.1 200 OK" >>,
          start |-> 0,
          length |-> Num(file_size)]

\* let header = format!(..), as lines; the last line is the empty line that
\* ends the header
Header(status_line, content_type, length) ==
    status_line \o << "Content-Type: " \o content_type,
                      "Content-Length: " \o FormatU64(length),
                      "Accept-Ranges: bytes",
                      "Connection: close",
                      "" >>

\* the response to a request for a file that does not exist
NotFound == << "HTTP/1.1 404 Not Found", "Content-Length: 0", "" >>

\* request.starts_with("HEAD ")
IsHead(req) == req # <<>> /\ starts_with(req[1], << "H", "E", "A", "D", " " >>)

\* -------- what the client sends, and the file the server was started with
Methods == { << "G", "E", "T" >>, << "H", "E", "A", "D" >> }
RequestLine(method) ==
    method \o << " ", "/", "v", "i", "d", "e", "o", " ",
                 "H", "T", "T", "P", "/", "1", ".", "1" >>
HostLine == << "H", "o", "s", "t", ":", " ", "x" >>

BytesUnit == << "b", "y", "t", "e", "s", "=" >>
BytesRange(a, b) == BytesUnit \o Dec(a) \o << "-" >> \o Dec(b)
BytesFrom(a) == BytesUnit \o Dec(a) \o << "-" >>
BytesAt(a) == BytesUnit \o Dec(a)
BytesSuffix(b) == BytesUnit \o << "-" >> \o Dec(b)

\* Range values of the forms bytes=<start>-<end>, bytes=<start>- and
\* bytes=<start>
WindowValues ==
    {BytesRange(a, b) : a \in 0..MaxRangeNum, b \in 0..MaxRangeNum}
        \cup {BytesFrom(a) : a \in 0..MaxRangeNum}
        \cup {BytesAt(a) : a \in 0..MaxRangeNum}

\* other Range values: a suffix range, two ranges, another unit, no number,
\* no value
OtherValues ==
    {BytesSuffix(b) : b \in 0..MaxRangeNum}
        \cup { BytesRange(0, 1) \o << "," >> \o Dec(2) \o << "-" >> \o Dec(3),
               << "i", "t", "e", "m", "s", "=" >> \o Dec(0) \o << "-" >> \o Dec(1),
               BytesUnit \o << "x", "-" >> \o Dec(1),
               BytesUnit \o Dec(0) \o << "-", "x" >>,
               <<>> }

RangeNames == { << "R", "a", "n", "g", "e" >>, << "r", "a", "n", "g", "e" >>,
                << "R", "A", "N", "G", "E" >> }
RangeSeparators == { << ":", " " >>, << ":" >> }

\* the Range header lines that carry the value
RangeLines(value) == {name \o sep \o value : name \in RangeNames, sep \in RangeSeparators}

Requests ==
    {<< RequestLine(m), HostLine >> : m \in Methods}
        \cup {<< RequestLine(m), HostLine, line >> :
                 m \in Methods,
                 line \in UNION {RangeLines(v) : v \in WindowValues \cup OtherValues}}

ServedFiles ==
    { [exists |-> FALSE, len |-> 0, ext |-> << "m", "p", "4" >>] }
        \cup [exists : {TRUE}, len : 0..MaxFileLen,
              ext : { << "m", "p", "4" >>, << "M", "K", "V" >> }]

\* no connection is made
NoConnection ==
    /\ servedFile = [exists |-> FALSE, len |-> 0, ext |-> << "m", "p", "4" >>]
    /\ request = <<>>
    /\ connPc = "unused"
    /\ range = Nothing
    /\ remaining = Num(0)
    /\ filePos = 0
    /\ fileOpened = FALSE
    /\ respHead = <<>>
    /\ respBody = <<>>

\* one connection has been accepted and handle_connection spawned for it
InitConnection ==
    /\ servedFile \in ServedFiles
    /\ request \in Requests
    /\ connPc = "read"
    /\ range = Nothing
    /\ remaining = Num(0)
    /\ filePos = 0
    /\ fileOpened = FALSE
    /\ respHead = <<>>
    /\ respBody = <<>>

\* ---------------------------------------------------- handle_connection
\* stream.read(&mut buf): the request text arrives; Ok(0) and Err return
ConnRead ==
    /\ connPc = "read"
    /\ \/ connPc' = "stat"
       \/ connPc' = "failed"
    /\ UNCHANGED <<servedFile, request, range, remaining, filePos, fileOpened,
                   respHead, respBody, listenVars, cutVars, downloadVars>>

\* faulty variant of ConnStat: a missing file is served as an empty file
ConnStatServesMissing ==
    /\ connPc = "stat"
    /\ connPc' = "head"
    /\ UNCHANGED <<servedFile, request, range, remaining, filePos, fileOpened,
                   respHead, respBody, listenVars, cutVars, downloadVars>>

\* faulty variant of ConnStat: only the path of FileServer::url is served
ConnStatRoutesPath ==
    /\ connPc = "stat"
    /\ IF servedFile.exists /\ request[1] \in {RequestLine(m) : m \in Methods}
       THEN connPc' = "head" /\ UNCHANGED respHead
       ELSE \/ respHead' = NotFound /\ connPc' = "closed"
            \/ connPc' = "failed" /\ UNCHANGED respHead
    /\ UNCHANGED <<servedFile, request, range, remaining, filePos, fileOpened,
                   respBody, listenVars, cutVars, downloadVars>>

\* tokio::fs::metadata: a missing file is answered with the 404 response, whose
\* write may fail, and the function returns
ConnStat ==
    /\ connPc = "stat"
    /\ IF servedFile.exists
       THEN connPc' = "head" /\ UNCHANGED respHead
       ELSE \/ respHead' = NotFound /\ connPc' = "closed"
            \/ connPc' = "failed" /\ UNCHANGED respHead
    /\ UNCHANGED <<servedFile, request, range, remaining, filePos, fileOpened,
                   respBody, listenVars, cutVars, downloadVars>>

\* the range is parsed, status line and header are formatted and the header is
\* written.  end - start panics in a build with overflow checks when end < start
\* and wraps in a build without them.  A failed write returns.
ConnHead ==
    /\ connPc = "head"
    /\ range' = find_map(request, servedFile.len)
    /\ \/ /\ range' # Nothing
          /\ range'[1][2] < range'[1][1]
          /\ connPc' = "panicked"
          /\ UNCHANGED <<respHead, remaining>>
       \/ /\ respHead' = Header(StatusAndWindow(range', servedFile.len).status_line,
                                ContentType(servedFile.ext),
                                StatusAndWindow(range', servedFile.len).length)
          /\ remaining' = StatusAndWindow(range', servedFile.len).length
          /\ connPc' = "body"
       \/ /\ connPc' = "failed"
          /\ UNCHANGED <<respHead, remaining>>
    /\ UNCHANGED <<servedFile, request, filePos, fileOpened, respBody, listenVars,
                   cutVars, downloadVars>>

\* faulty variant of ConnOpen: the file is read from its first byte
ConnOpenNoSeek ==
    /\ connPc = "body"
    /\ IF IsHead(request)
       THEN connPc' = "closed" /\ UNCHANGED <<fileOpened, filePos>>
       ELSE /\ fileOpened' = TRUE
            /\ \/ filePos' = 0 /\ connPc' = "stream"
               \/ connPc' = "failed" /\ UNCHANGED filePos
    /\ UNCHANGED <<servedFile, request, range, remaining, respHead, respBody,
                   listenVars, cutVars, downloadVars>>

\* faulty variant of ConnOpen: the method is not looked at
ConnOpenIgnoresMethod ==
    /\ connPc = "body"
    /\ fileOpened' = TRUE
    /\ \/ /\ filePos' = StatusAndWindow(range, servedFile.len).start
          /\ connPc' = "stream"
       \/ connPc' = "failed" /\ UNCHANGED filePos
    /\ UNCHANGED <<servedFile, request, range, remaining, respHead, respBody,
                   listenVars, cutVars, downloadVars>>

\* a HEAD request returns; otherwise File::open and, for start > 0, the seek to
\* start, either of which may fail
ConnOpen ==
    /\ connPc = "body"
    /\ IF IsHead(request)
       THEN connPc' = "closed" /\ UNCHANGED <<fileOpened, filePos>>
       ELSE /\ fileOpened' = TRUE
            /\ \/ /\ filePos' = StatusAndWindow(range, servedFile.len).start
                  /\ connPc' = "stream"
               \/ connPc' = "failed" /\ UNCHANGED filePos
    /\ UNCHANGED <<servedFile, request, range, remaining, respHead, respBody,
                   listenVars, cutVars, downloadVars>>

\* one turn of the streaming loop: it ends when nothing remains or the read is
\* at the end of the file; a read yields between one byte and to_read bytes,
\* which are written; a failed read or write ends it
ConnChunk ==
    /\ connPc = "stream"
    /\ IF ~Positive(remaining) \/ filePos >= servedFile.len
       THEN connPc' = "closed" /\ UNCHANGED <<remaining, filePos, respBody>>
       ELSE \/ \E n \in 1..(IF ToRead(remaining) < servedFile.len - filePos
                              THEN ToRead(remaining)
                              ELSE servedFile.len - filePos) :
                 /\ respBody' = respBody \o [i \in 1..n |-> filePos + i - 1]
                 /\ filePos' = filePos + n
                 /\ remaining' = [remaining EXCEPT !.plus = @ - n]
                 /\ UNCHANGED connPc
            \/ connPc' = "failed" /\ UNCHANGED <<remaining, filePos, respBody>>
    /\ UNCHANGED <<servedFile, request, range, fileOpened, respHead, listenVars,
                   cutVars, downloadVars>>

\* ------------------------------------------- FileServer: start, stop, run
\* the request line with another path than the one of FileServer::url
VideoPath == << "/", "v", "i", "d", "e", "o" >>
Paths == { VideoPath, << "/" >>, << "/", "e", "t", "c", "/", "p", "a", "s", "s", "w", "d" >> }
RequestLineTo(method, path) ==
    method \o << " " >> \o path \o << " ", "H", "T", "T", "P", "/", "1", ".", "1" >>

\* what the client of a listening server sends: either method, any path, and no
\* Range header, a closed range or an open range
ListenRanges ==
    { << "R", "a", "n", "g", "e", ":", " " >> \o BytesRange(1, 2),
      << "r", "a", "n", "g", "e", ":" >> \o BytesFrom(1) }
ListenRequests ==
    {<< RequestLineTo(m, p), HostLine >> : m \in Methods, p \in Paths}
        \cup {<< RequestLineTo(m, p), HostLine, line >> :
                 m \in Methods, p \in Paths, line \in ListenRanges}

\* watch::channel(false): the value, and whether the receiver of run has a
\* change it has not seen
WatchChannel(value, changed) == [value |-> value, changed |-> changed]

\* no file server is started
NoServer ==
    /\ serverHandle = "none"
    /\ runPc = "none"
    /\ shutdown = WatchChannel(FALSE, FALSE)
    /\ stopLog = <<>>
    /\ backlog = 0
    /\ accepted = 0
    /\ connAtExit = "none"

\* a file server is going to be started on a file; the connection that is
\* followed is the first one run accepts, and its client sends request
InitServer ==
    /\ NoServer
    /\ servedFile \in ServedFiles
    /\ request \in ListenRequests
    /\ connPc = "unused"
    /\ range = Nothing
    /\ remaining = Num(0)
    /\ filePos = 0
    /\ fileOpened = FALSE
    /\ respHead = <<>>
    /\ respBody = <<>>

ConnInFlight == connPc \in {"read", "stat", "head", "body", "stream"}

\* FileServer::start: bind and local_addr, either of which may fail; then the
\* watch channel is created and run is spawned
ServerStart ==
    /\ serverHandle = "none"
    /\ \/ /\ serverHandle' = "held"
          /\ runPc' = "select"
          /\ shutdown' = WatchChannel(FALSE, FALSE)
       \/ /\ serverHandle' = "failed"
          /\ UNCHANGED <<runPc, shutdown>>
    /\ UNCHANGED <<stopLog, backlog, accepted, connAtExit, servedFile, request, connPc,
                   range, remaining, filePos, fileOpened, respHead, respBody,
                   cutVars, downloadVars>>

\* a client connects to the listener, which exists until run returns
ClientConnect ==
    /\ runPc = "select"
    /\ backlog + accepted < MaxConnects
    /\ backlog' = backlog + 1
    /\ UNCHANGED <<serverHandle, runPc, shutdown, stopLog, accepted, connAtExit,
                   servedFile, request, connPc, range, remaining, filePos, fileOpened,
                   respHead, respBody, cutVars, downloadVars>>

\* faulty variant of ServerStop: the value is stored and the receiver is not told
ServerStopNoWake ==
    /\ serverHandle = "held"
    /\ Len(stopLog) < MaxStops
    /\ IF runPc = "select"
       THEN /\ shutdown' = WatchChannel(TRUE, shutdown.changed)
            /\ stopLog' = Append(stopLog, "sent")
       ELSE /\ stopLog' = Append(stopLog, "discarded_err")
            /\ UNCHANGED shutdown
    /\ UNCHANGED <<serverHandle, runPc, backlog, accepted, connAtExit, servedFile,
                   request, connPc, range, remaining, filePos, fileOpened, respHead,
                   respBody, cutVars, downloadVars>>

\* faulty variant of ServerStop: the result of the send is unwrapped
ServerStopUnwrap ==
    /\ serverHandle = "held"
    /\ Len(stopLog) < MaxStops
    /\ IF runPc = "select"
       THEN /\ shutdown' = WatchChannel(TRUE, TRUE)
            /\ stopLog' = Append(stopLog, "sent")
       ELSE /\ stopLog' = Append(stopLog, "panicked")
            /\ UNCHANGED shutdown
    /\ UNCHANGED <<serverHandle, runPc, backlog, accepted, connAtExit, servedFile,
                   request, connPc, range, remaining, filePos, fileOpened, respHead,
                   respBody, cutVars, downloadVars>>

\* FileServer::stop: let _ = self.shutdown_tx.send(true).  The send stores the
\* value and marks it unseen while the receiver of run exists; once run has
\* returned the send yields Err, which is discarded
ServerStop ==
    /\ serverHandle = "held"
    /\ Len(stopLog) < MaxStops
    /\ IF runPc = "select"
       THEN /\ shutdown' = WatchChannel(TRUE, TRUE)
            /\ stopLog' = Append(stopLog, "sent")
       ELSE /\ stopLog' = Append(stopLog, "discarded_err")
            /\ UNCHANGED shutdown
    /\ UNCHANGED <<serverHandle, runPc, backlog, accepted, connAtExit, servedFile,
                   request, connPc, range, remaining, filePos, fileOpened, respHead,
                   respBody, cutVars, downloadVars>>

\* the owner drops the FileServer value, and with it the sender of the channel
ServerDrop ==
    /\ serverHandle = "held"
    /\ serverHandle' = "dropped"
    /\ UNCHANGED <<runPc, shutdown, stopLog, backlog, accepted, connAtExit, servedFile,
                   request, connPc, range, remaining, filePos, fileOpened, respHead,
                   respBody, cutVars, downloadVars>>

\* faulty variant of ServerAccept: the connection is handled inside the loop, which
\* takes the next one when the handler has returned and ends with its error
ServerAcceptInline ==
    /\ runPc = "select"
    /\ backlog > 0
    /\ ~ConnInFlight
    /\ connPc # "failed"
    /\ backlog' = backlog - 1
    /\ accepted' = accepted + 1
    /\ connPc' = IF connPc = "unused" THEN "read" ELSE connPc
    /\ UNCHANGED <<serverHandle, runPc, shutdown, stopLog, connAtExit, servedFile,
                   request, range, remaining, filePos, fileOpened, respHead, respBody,
                   cutVars, downloadVars>>

\* the accept branch of select!: Ok((stream, _)) spawns handle_connection for
\* the connection.  select! takes any branch that is ready, so this branch may
\* be taken while a change of the channel is unseen.  (An accept that fails
\* changes nothing.)
ServerAccept ==
    /\ runPc = "select"
    /\ backlog > 0
    /\ backlog' = backlog - 1
    /\ accepted' = accepted + 1
    /\ connPc' = IF connPc = "unused" THEN "read" ELSE connPc
    /\ UNCHANGED <<serverHandle, runPc, shutdown, stopLog, connAtExit, servedFile,
                   request, range, remaining, filePos, fileOpened, respHead, respBody,
                   cutVars, downloadVars>>

\* the accept branch of select! with Err(_): the connection that was being
\* accepted is gone (the peer gave it up), nothing is spawned and the loop goes
\* on to its next turn
ServerAcceptFails ==
    /\ runPc = "select"
    /\ backlog > 0
    /\ backlog' = backlog - 1
    /\ UNCHANGED <<serverHandle, runPc, shutdown, stopLog, accepted, connAtExit,
                   servedFile, request, connPc, range, remaining, filePos, fileOpened,
                   respHead, respBody, cutVars, downloadVars>>

\* faulty variant of ServerShutdown: the connection tasks are aborted with the
\* loop
ServerShutdownAbortsConnections ==
    /\ runPc = "select"
    /\ shutdown.changed \/ serverHandle = "dropped"
    /\ runPc' = "exited"
    /\ shutdown' = [shutdown EXCEPT !.changed = FALSE]
    /\ backlog' = 0
    /\ connAtExit' = connPc
    /\ connPc' = IF ConnInFlight THEN "failed" ELSE connPc
    /\ UNCHANGED <<serverHandle, stopLog, accepted, servedFile, request,
                   range, remaining, filePos, fileOpened, respHead, respBody,
                   cutVars, downloadVars>>

\* the shutdown branch of select!: changed() is ready when a send has not been
\* seen (Ok) and when the sender is dropped (Err); either way the loop breaks,
\* run returns and the listener and the receiver are dropped, which closes the
\* connections that were not accepted.  The spawned connection tasks are not
\* touched.
ServerShutdown ==
    /\ runPc = "select"
    /\ shutdown.changed \/ serverHandle = "dropped"
    /\ runPc' = "exited"
    /\ shutdown' = [shutdown EXCEPT !.changed = FALSE]
    /\ backlog' = 0
    /\ connAtExit' = connPc
    /\ UNCHANGED <<serverHandle, stopLog, accepted, servedFile, request, connPc,
                   range, remaining, filePos, fileOpened, respHead, respBody,
                   cutVars, downloadVars>>

\* ------------------------------------------------------- specification
Init == InitCalls(Starts) /\ NoCut /\ NoConnection /\ NoServer

Next ==
    \/ \E c \in Starts : StartCheck(c)
    \/ \E c \in Starts : StartStore(c)
    \/ \E k \in Cancels : CancelTake(k)
    \/ \E k \in Cancels : CancelAbort(k)
    \/ \E j \in Jobs : TaskBegin(j)
    \/ \E j \in Jobs : TaskReadEnd(j)
    \/ \E j \in Jobs : TaskWait(j)
    \/ \E j \in Jobs : TaskClear(j)
    \/ \E j \in Jobs : TaskDrop(j)
    \/ \E j \in Jobs : ProcExit(j)
    \/ \E j \in Jobs : Forward(j)

Spec == Init /\ [][Next]_vars

\* the stream workload: the host issues one start_download call
StreamCalls == {1}

InitStream == InitCalls(StreamCalls) /\ NoCut /\ NoConnection /\ NoServer

NextStream ==
    \/ Next
    \/ \E j \in Jobs : TaskReadLine(j)

SpecStream == InitStream /\ [][NextStream]_vars

\* the runtime polls the forwarding task while its channel holds an update or
\* is closed, and drops an aborted task at the await where it is suspended
SpecStreamFair ==
    SpecStream /\ \A j \in Jobs : WF_vars(Forward(j)) /\ WF_vars(TaskDrop(j))

\* one start_download call whose yt-dlp prints more progress lines than the
\* channel holds
NextBurst ==
    \/ \E c \in StreamCalls : StartCheck(c)
    \/ \E c \in StreamCalls : StartStore(c)
    \/ \E j \in StreamCalls : TaskBegin(j)
    \/ \E j \in StreamCalls : TaskReadBurst(j)
    \/ \E j \in StreamCalls : TaskReadEnd(j)
    \/ \E j \in StreamCalls : TaskWait(j)
    \/ \E j \in StreamCalls : TaskClear(j)
    \/ \E j \in StreamCalls : Forward(j)

SpecBurst == InitStream /\ [][NextBurst]_vars

\* the download text workload: the read loop of one download_video call, on
\* any line yt-dlp may print
InitDownloadText == InitCalls({}) /\ NoCut /\ NoConnection /\ NoServer

NextDownloadText == DownloadReadText

SpecDownloadText == InitDownloadText /\ [][NextDownloadText]_vars

\* one job function and its child process, seen at the pipes
NextPipes ==
    \/ PipeSpawn
    \/ ChildStep
    \/ ChildWriteStdout
    \/ ChildWriteStderr
    \/ PipeRead
    \/ PipeWait

SpecPipes == InitDownloadText /\ [][NextPipes]_vars

\* the cut workload: one cut_video call and nothing else
InitCut == InitCalls({}) /\ InitCutCall /\ NoConnection /\ NoServer

NextCut ==
    \/ CutStart
    \/ CutReadLine
    \/ CutReadEnd
    \/ CutWait
    \/ CutReencodeStart
    \/ CutReencodeReadLine
    \/ CutReencodeReadEnd
    \/ CutReencodeWait

SpecCut == InitCut /\ [][NextCut]_vars

\* the cut text workload: one cut_video call whose ffmpeg runs print any line
NextCutText ==
    \/ CutStart
    \/ CutReadText
    \/ CutReadEnd
    \/ CutWait
    \/ CutReencodeStart
    \/ CutReencodeReadText
    \/ CutReencodeReadEnd
    \/ CutReencodeWait

SpecCutText == InitCut /\ [][NextCutText]_vars

\* the job workload: one download as in the stream workload and, once it has
\* been delivered, one cut_video call on the downloaded file
InitJob ==
    /\ InitCalls(StreamCalls)
    /\ InitCutCall
    /\ cutInput.exists
    /\ cutInput.total_us > 0
    /\ NoConnection
    /\ NoServer

DownloadDelivered ==
    \E j \in StreamCalls :
        task[j] = "finished" /\ proc[j] = "exit_zero" /\ fwd[j] = "done"

NextJob ==
    \/ NextStream
    \/ DownloadDelivered /\ CutStart
    \/ DownloadDelivered /\ CutReadLine
    \/ DownloadDelivered /\ CutReadEnd
    \/ DownloadDelivered /\ CutWait
    \/ DownloadDelivered /\ CutReencodeStart
    \/ DownloadDelivered /\ CutReencodeReadLine
    \/ DownloadDelivered /\ CutReencodeReadEnd
    \/ DownloadDelivered /\ CutReencodeWait

SpecJob == InitJob /\ [][NextJob]_vars

\* the server workload: one connection to the file server and nothing else
InitServe == InitCalls({}) /\ NoCut /\ InitConnection /\ NoServer

NextServe ==
    \/ ConnRead
    \/ ConnStat
    \/ ConnHead
    \/ ConnOpen
    \/ ConnChunk

SpecServe == InitServe /\ [][NextServe]_vars

\* the listener workload: one file server from start to stop, the connections
\* made to it, and the whole of the first connection it accepts
InitListen == InitCalls({}) /\ NoCut /\ InitServer

NextListen ==
    \/ ServerStart
    \/ ClientConnect
    \/ ServerStop
    \/ ServerDrop
    \/ ServerAccept
    \/ ServerAcceptFails
    \/ ServerShutdown
    \/ NextServe

SpecListen == InitListen /\ [][NextListen]_vars

\* the task of run is polled whenever one of its branches is ready, and a
\* change of the watch channel stays ready until the loop has taken it
SpecListenFair == SpecListen /\ WF_vars(ServerShutdown)

\* ------------------------------------------------------------- claims
\* what the host has observed of a job
IsProgress(e) == e.name = "progress"
IsChannelProgress(e) == e.name = "progress" /\ e.payload.stage # "Error"
IsOutcome(e) == e.name \in {"download-complete", "download-error"}
                \/ (e.name = "progress" /\ e.payload.stage = "Error")
Payloads(evs) == [i \in 1..Len(evs) |-> evs[i].payload]
ProgressOf(j) == Payloads(SelectSeq(hostEvents[j], IsProgress))
ChannelProgressOf(j) == Payloads(SelectSeq(hostEvents[j], IsChannelProgress))
OutcomesOf(j) == SelectSeq(hostEvents[j], IsOutcome)

\* C1: at most one download job task is running a child process at any time.
C1_AtMostOneJobTask ==
    Cardinality({j \in Jobs : TaskLive(j) /\ proc[j] = "running"}) <= 1

\* C2: once a job's task has ended (finished or dropped after an abort), the
\* slot does not hold that job's handle.
C2_EndedJobNotInSlot ==
    \A j \in Jobs : TaskEnded(j) => active_download # j

\* one step, seen from the start_download calls that run into a populated slot
C3_RejectStep ==
    \A c \in Starts :
        /\ (startPc[c] = "idle" /\ startPc'[c] # "idle" /\ active_download # None)
              => startRes'[c] \in {"AlreadyInProgress", "InvalidUrl"}
        /\ (startRes[c] = "none" /\ startRes'[c] = "AlreadyInProgress")
              => /\ active_download # None
                 /\ UNCHANGED <<active_download, task, fwd, chan, proc, abortReq,
                                sentLog, hostEvents>>

\* C3: a start_download call that finds the slot populated returns "A download
\* is already in progress", and the step that returns it creates no channel,
\* spawns no task and no process, and leaves the slot and every job's progress
\* stream as they were.
C3_RejectSpawnsNothing == [][C3_RejectStep]_vars

C3_Witness ==
    \E c \in Starts : \E j \in Jobs :
        /\ startRes[c] = "AlreadyInProgress"
        /\ active_download = j
        /\ TaskLive(j)
        /\ task[c] = "none"

\* one step, seen from the start_download calls that store their handle
C4_StoreStep ==
    \A c \in Starts :
        (startPc[c] = "store" /\ startPc'[c] = "done") => active_download = None

\* C4: start_download stores its handle only into an empty slot.
C4_StoreOnlyIntoEmptySlot == [][C4_StoreStep]_vars

\* one step, seen from the jobs whose abort has been requested
C5_CancelStep ==
    \A j \in Jobs : abortReq[j] => ProgressOf(j)' = ProgressOf(j)

\* C5: once cancel_download has returned Ok for a job, no further progress event
\* of that job is emitted to the host.
C5_NoProgressAfterCancel == [][C5_CancelStep]_vars

\* C6: after cancel_download returned Ok for a job and its task has been
\* dropped, the job's child process is not running any more.
C6_CancelStopsProcess ==
    \A j \in Jobs : (abortReq[j] /\ task[j] = "dropped") => proc[j] # "running"

\* the states of a cancel_download call between its take and its return
C7_Inv ==
    /\ \A k \in Cancels :
         /\ cancelPc[k] = "abort"
               => (lock = k /\ active_download = None /\ cancelHeld[k] # None)
         /\ cancelRes[k] = "Ok" => (cancelHeld[k] # None /\ abortReq[cancelHeld[k]])
    /\ \A j \in Jobs : abortReq[j] => active_download # j

\* one step, seen from the cancel_download calls that run into a populated slot
C7_Step ==
    \A k \in Cancels :
        /\ (cancelRes[k] = "none" /\ cancelRes'[k] = "Ok")
              => (lock = k /\ lock' = Free /\ active_download' = None)
        /\ (cancelPc[k] = "idle" /\ cancelPc'[k] # "idle" /\ active_download # None)
              => (cancelPc'[k] = "abort" /\ active_download' = None
                  /\ cancelHeld'[k] = active_download)

\* C7: cancel_download takes the handle and requests the abort inside one
\* critical section: between the take and the abort the call holds the lock and
\* the slot is empty, the slot is empty when the call returns Ok, and the slot
\* never holds a handle whose abort has been requested.
C7_CancelCriticalSection == []C7_Inv /\ [][C7_Step]_vars

C7_Witness ==
    \E k \in Cancels :
        /\ cancelRes[k] = "Ok"
        /\ abortReq[cancelHeld[k]]
        /\ task[cancelHeld[k]] = "dropped"
        /\ active_download = None

\* one step, seen from the cancel_download calls that run into an empty slot
C8_Step ==
    \A k \in Cancels :
        /\ (cancelPc[k] = "idle" /\ cancelPc'[k] # "idle" /\ active_download = None)
              => cancelRes'[k] = "Cancelled"
        /\ (cancelRes[k] = "none" /\ cancelRes'[k] = "Cancelled")
              => /\ active_download = None
                 /\ UNCHANGED <<active_download, lock, abortReq, cancelHeld, task, proc,
                                chan, fwd, sentLog, hostEvents, startVars>>

\* C8: cancel_download on an empty slot returns Err(AppError::Cancelled) and
\* changes nothing: the slot stays empty, no abort is requested, no task, process
\* or channel changes and no event is emitted.
C8_CancelOnEmptySlot == [][C8_Step]_vars

C8_Witness ==
    \E k \in Cancels :
        /\ cancelRes[k] = "Cancelled"
        /\ cancelHeld[k] = None
        /\ \E c \in Starts : startRes[c] = "Ok"

\* C9: a job for which cancel_download returned Ok has emitted no
\* download-complete, no Error-stage update and no download-error.
C9_CancelledHasNoOtherOutcome ==
    \A j \in Jobs : abortReq[j] => OutcomesOf(j) = <<>>

\* C10: the progress updates the forwarding task has emitted for a job, followed
\* by the updates still in the job's channel, are exactly the updates the job
\* sent, in the order it sent them.
C10_ProgressInOrder ==
    \A j \in Jobs : ChannelProgressOf(j) \o chan[j] = sentLog[j]

C10_Witness ==
    \E j \in Jobs :
        /\ fwd[j] = "done"
        /\ Len(sentLog[j]) >= 4
        /\ sentLog[j][2] # sentLog[j][3]
        /\ ChannelProgressOf(j) = sentLog[j]

\* C11: a cut job spawns ffmpeg at most twice, first with stream copy; the
\* re-encoding run is spawned only after the stream-copy run exited non-zero, and
\* then exactly once; when the stream-copy run exits with status 0 cut_video
\* returns with that single spawn; when the re-encoding run exits non-zero too,
\* cut_video returns CutError("ffmpeg encoding failed") with no further spawn.
C11_FallbackOnce ==
    /\ Len(cutProcs) <= 2
    /\ Len(cutProcs) >= 1 =>
         /\ cutProcs[1].codec = "copy"
         /\ cutProcs[1].exit = "zero" => (Len(cutProcs) = 1 /\ cutPc = "done")
         /\ cutProcs[1].exit = "nonzero" => (cutPc = "reencode" \/ Len(cutProcs) = 2)
    /\ Len(cutProcs) = 2 =>
         /\ cutProcs[1].exit = "nonzero"
         /\ cutProcs[2].codec = "libx264"
         /\ cutProcs[2].exit = "nonzero" =>
              (cutPc = "done" /\ cutRes = CutError("ffmpeg encoding failed"))

C11_Witness ==
    /\ Len(cutProcs) = 2
    /\ cutProcs[1].exit = "nonzero"
    /\ cutProcs[2].exit = "nonzero"
    /\ cutRes = CutError("ffmpeg encoding failed")
    /\ ReencodeLinesParsed >= 1

\* the Complete-stage updates in a sequence of updates
Completes(log) == Cardinality({i \in 1..Len(log) : log[i].stage = "Complete"})

\* C12: once the wait has returned exit status 0, the job has returned Ok (a
\* download's task has emitted download-complete, cut_video has returned
\* Ok(output_path)), the job has sent exactly one Complete-stage update, that
\* update has percent 100 and is the last update the job sent, so that every
\* update parsed from the process output comes before it and none follows it;
\* a job sends no Complete update in another case.
C12_CompleteOnceAndLast ==
    /\ \A j \in Jobs :
         /\ proc[j] = "exit_zero" =>
              /\ OutcomesOf(j) = << Event("download-complete", NoPayload) >>
              /\ Completes(sentLog[j]) = 1
              /\ sentLog[j][Len(sentLog[j])].stage = "Complete"
              /\ sentLog[j][Len(sentLog[j])].percent = 100
         /\ Completes(sentLog[j]) > 0 => proc[j] = "exit_zero"
    /\ (cutProcs # <<>> /\ cutProcs[Len(cutProcs)].exit = "zero") =>
         /\ cutRes = "Ok(output_path)"
         /\ Completes(cutSent) = 1
         /\ cutSent[Len(cutSent)].stage = "Complete"
         /\ cutSent[Len(cutSent)].percent = 100
    /\ Completes(cutSent) > 0 =>
         (cutProcs # <<>> /\ cutProcs[Len(cutProcs)].exit = "zero")

C12_Witness ==
    /\ \E j \in Jobs :
         /\ proc[j] = "exit_zero"
         /\ LinesParsed(j) >= 2
         /\ sentLog[j][Len(sentLog[j])] = CompleteUpdate
    /\ Len(cutProcs) = 2
    /\ cutProcs[2].exit = "zero"
    /\ CutLinesParsed >= 1
    /\ ReencodeLinesParsed >= 1
    /\ cutSent[Len(cutSent)] = CutCompleteUpdate

\* the job's task has run download_video to its return
Returned(j) == task[j] \in {"clear_lock", "finished"}

\* C13: a download job that failed has emitted exactly one Error-stage progress
\* update, whose message is the text of the error, directly followed by the one
\* download-error notification with the same text, and it has sent no Complete
\* update and emitted no download-complete: this holds after a non-zero exit
\* status, after a spawn error, and after a read error or a failed wait.
C13_OneErrorUpdateBeforeResult ==
    \A j \in Jobs :
        /\ proc[j] = "exit_nonzero" => OutcomesOf(j) = ErrorEvents("Download failed")
        /\ (Returned(j) /\ proc[j] = "none") =>
              OutcomesOf(j) = ErrorEvents("Failed to start yt-dlp")
        /\ (Returned(j) /\ proc[j] \in {"running", "exited"}) =>
              OutcomesOf(j) \in { ErrorEvents("Failed to read output"),
                                  ErrorEvents("Failed to wait for yt-dlp") }
        /\ (\E i \in 1..Len(hostEvents[j]) :
                hostEvents[j][i].name = "download-error"
                \/ hostEvents[j][i].payload.stage = "Error") =>
              /\ Len(OutcomesOf(j)) = 2
              /\ OutcomesOf(j)[1].name = "progress"
              /\ OutcomesOf(j)[1].payload.stage = "Error"
              /\ OutcomesOf(j)[2].name = "download-error"
              /\ OutcomesOf(j)[1].payload.message = OutcomesOf(j)[2].payload.message
              /\ Completes(sentLog[j]) = 0
              /\ Completes(ProgressOf(j)) = 0

C13_Witness ==
    \E j \in Jobs :
        /\ proc[j] = "exit_nonzero"
        /\ LinesParsed(j) >= 1
        /\ fwd[j] = "done"
        /\ OutcomesOf(j) = ErrorEvents("Download failed")

\* what a connection shows of its request and of its response
Lines(head) == {head[i] : i \in 1..Len(head)}
IsGet(req) == req # <<>> /\ req[1] = RequestLine(<< "G", "E", "T" >>)
HasRangeValue(value) == Len(request) = 3 /\ request[3] \in RangeLines(value)
FileBytes(a, b) == [i \in 1..(b - a + 1) |-> a + i - 1]
IsPrefix(s, t) == Len(s) <= Len(t) /\ s = SubSeq(t, 1, Len(s))

\* C14: for a file of length L and a GET with the header Range: bytes=a-b,
\* 0 <= a <= b < L, the header that is written has the status line 206 Partial
\* Content and the lines Content-Range: bytes a-b/L and Content-Length: b-a+1;
\* the body written so far is always a prefix of the bytes a..b of the file, and
\* when the handler returns without an I/O error it is exactly these bytes.
C14_RangeServedExactly ==
    \A a \in 0..MaxRangeNum : \A b \in 0..MaxRangeNum :
        ( /\ servedFile.exists
          /\ IsGet(request)
          /\ HasRangeValue(BytesRange(a, b))
          /\ a <= b
          /\ b < servedFile.len )
        => /\ connPc # "panicked"
           /\ respHead # <<>> =>
                /\ respHead[1] = "HTTP/1.1 206 Partial Content"
                /\ ("Content-Range: bytes " \o ToString(a) \o "-" \o ToString(b)
                        \o "/" \o ToString(servedFile.len)) \in Lines(respHead)
                /\ ("Content-Length: " \o ToString(b - a + 1)) \in Lines(respHead)
           /\ IsPrefix(respBody, FileBytes(a, b))
           /\ connPc = "closed" => (respHead # <<>> /\ respBody = FileBytes(a, b))

C14_Witness ==
    /\ connPc = "closed"
    /\ IsGet(request)
    /\ servedFile.len = 3
    /\ HasRangeValue(BytesRange(1, 2))
    /\ respBody = << 1, 2 >>

\* C15: the byte window computed for a request satisfies 0 <= start <= end <
\* total_length, whatever the Range header and the file length, and no request
\* fails over its Range header.
C15_WindowInBounds ==
    /\ connPc # "panicked"
    /\ range # Nothing =>
         /\ 0 <= range[1][1]
         /\ range[1][1] <= range[1][2]
         /\ range[1][2] < servedFile.len

\* the Content-Type lines of the server
ContentTypeLines ==
    {"Content-Type: " \o t :
        t \in {"video/mp4", "video/x-matroska", "video/x-msvideo", "video/quicktime",
               "video/webm", "video/x-flv", "video/x-ms-wmv",
               "application/octet-stream"}}

\* the request holds no Range header and the header written is that of the
\* whole file: 200 OK, no Content-Range, Content-Length: L
WholeFileHeader ==
    \E ct \in ContentTypeLines :
        respHead = << "HTTP/1.1 200 OK", ct,
                      "Content-Length: " \o ToString(servedFile.len),
                      "Accept-Ranges: bytes", "Connection: close", "" >>

\* C16 as stated: every request with no Range header that the handler has
\* answered without an I/O error has the status 200, no Content-Range header,
\* Content-Length equal to the file length, and the entire file as its body.
C16_NoRangeWholeFile ==
    (servedFile.exists /\ Len(request) = 2 /\ connPc = "closed")
        => /\ WholeFileHeader
           /\ respBody = FileBytes(0, servedFile.len - 1)

\* C16, amended: a request with no Range header is answered with status 200,
\* no Content-Range header and Content-Length equal to the file length; the
\* body of a GET is the entire file (a prefix of it while it is being written or
\* after an I/O error), and a HEAD is answered with no body.
C16_NoRangeWholeFileForGet ==
    (servedFile.exists /\ Len(request) = 2)
        => /\ connPc # "panicked"
           /\ respHead # <<>> => WholeFileHeader
           /\ IsPrefix(respBody, FileBytes(0, servedFile.len - 1))
           /\ connPc = "closed" =>
                /\ respHead # <<>>
                /\ IsGet(request) => respBody = FileBytes(0, servedFile.len - 1)
                /\ IsHead(request) => respBody = <<>>

C16_Witness ==
    /\ connPc = "closed"
    /\ IsGet(request)
    /\ Len(request) = 2
    /\ servedFile.len = 3
    /\ respHead[1] = "HTTP/1.1 200 OK"
    /\ respBody = << 0, 1, 2 >>

\* C17: for a Range header bytes=a- and for a Range header bytes=a-b with b at
\* or beyond the file length L, the request does not fail and the header written
\* is 206 with Content-Range: bytes a-(L-1)/L and Content-Length: L-a.
C17_OpenEndReachesLastByte ==
    \A a \in 0..MaxRangeNum : \A b \in 0..MaxRangeNum :
        ( /\ servedFile.exists
          /\ \/ HasRangeValue(BytesFrom(a))
             \/ HasRangeValue(BytesRange(a, b)) /\ b >= servedFile.len )
        => /\ connPc # "panicked"
           /\ respHead # <<>> =>
                /\ respHead[1] = "HTTP/1.1 206 Partial Content"
                /\ ("Content-Range: bytes " \o ToString(a) \o "-"
                        \o ToString(servedFile.len - 1) \o "/"
                        \o ToString(servedFile.len)) \in Lines(respHead)
                /\ ("Content-Length: " \o ToString(servedFile.len - a))
                        \in Lines(respHead)

\* the Content-Range and Content-Length lines the server can write
ContentRangeLines ==
    {"Content-Range: bytes " \o ToString(s) \o "-" \o ToString(e) \o "/" \o ToString(t) :
        s \in 0..MaxRangeNum, e \in 0..MaxRangeNum, t \in 0..MaxFileLen}
ContentLengthLines ==
    {"Content-Length: " \o FormatU64(WrappingU64(n)) :
        n \in (0 - MaxRangeNum)..(MaxFileLen + 1)}

IsPartial == /\ respHead[1] = "HTTP/1.1 206 Partial Content"
             /\ Lines(respHead) \cap ContentRangeLines # {}
IsWhole == /\ respHead[1] = "HTTP/1.1 200 OK"
           /\ Lines(respHead) \cap ContentRangeLines = {}

\* every response that is not the 404 response carries Content-Type,
\* Content-Length, Accept-Ranges: bytes and Connection: close
CarriesFixedHeaders ==
    /\ Lines(respHead) \cap ContentTypeLines # {}
    /\ Lines(respHead) \cap ContentLengthLines # {}
    /\ "Accept-Ranges: bytes" \in Lines(respHead)
    /\ "Connection: close" \in Lines(respHead)

\* the request carries a Range header, its name in any case
CarriesRange == Len(request) = 3

\* the request carries a Range header whose value is bytes=<start>-<end>,
\* bytes=<start>- or bytes=<start>
CarriesWindowRange ==
    Len(request) = 3 /\ \E v \in WindowValues : request[3] \in RangeLines(v)

\* C18 as stated: the header written for an existing file has the status 206
\* with a Content-Range line exactly when the request carries a Range header,
\* the status 200 exactly when it carries none, and it carries the four fixed
\* headers.
C18_PartialIffRangeHeader ==
    (servedFile.exists /\ respHead # <<>>)
        => /\ IsPartial <=> CarriesRange
           /\ IsWhole <=> ~CarriesRange
           /\ CarriesFixedHeaders

\* C18, amended: the header written for an existing file has the status 206
\* with a Content-Range line exactly when the request carries a Range header
\* (its name in any case) whose value parses as a byte range, the status 200
\* without a Content-Range line exactly when it carries no Range header or one
\* whose value does not parse, and it carries the four fixed headers.
C18_PartialIffRangeParses ==
    (servedFile.exists /\ respHead # <<>>)
        => /\ IsPartial <=> CarriesWindowRange
           /\ IsWhole <=> ~CarriesWindowRange
           /\ CarriesFixedHeaders

C18_Witness ==
    /\ connPc = "closed"
    /\ servedFile.len = 3
    /\ IsGet(request)
    /\ Len(request) = 3
    /\ request[3] = << "R", "A", "N", "G", "E", ":" >> \o BytesFrom(1)
    /\ IsPartial
    /\ respBody = << 1, 2 >>

\* C19: when the served file does not exist, the handler never gets past the
\* metadata call: it writes nothing but the response HTTP/1.1 404 Not Found with
\* Content-Length: 0, writes no body byte, never opens the file, and returns,
\* which closes the connection; this holds for GET and HEAD, with and without a
\* Range header.
C19_MissingFileIs404 ==
    (request # <<>> /\ ~servedFile.exists)
        => /\ connPc \in {"read", "stat", "closed", "failed"}
           /\ respHead \in { <<>>, << "HTTP/1.1 404 Not Found", "Content-Length: 0", "" >> }
           /\ connPc = "closed" =>
                respHead = << "HTTP/1.1 404 Not Found", "Content-Length: 0", "" >>
           /\ respBody = <<>>
           /\ ~fileOpened

C19_Witness ==
    /\ ~servedFile.exists
    /\ connPc = "closed"
    /\ IsHead(request)
    /\ CarriesWindowRange
    /\ respHead[1] = "HTTP/1.1 404 Not Found"
    /\ respBody = <<>>

\* the header lines a request is answered with when the file exists
HeaderFor(req) ==
    Header(StatusAndWindow(find_map(req, servedFile.len), servedFile.len).status_line,
           ContentType(servedFile.ext),
           StatusAndWindow(find_map(req, servedFile.len), servedFile.len).length)

\* the GET request with the same header lines
AsGet(req) == [req EXCEPT ![1] = RequestLine(<< "G", "E", "T" >>)]

\* C20: the header written for a GET request is HeaderFor of that request, and
\* the header written for a HEAD request is the one written for the GET request
\* with the same header lines; a HEAD request never has a body byte written and
\* never has the file opened.
C20_HeadLikeGetWithoutBody ==
    servedFile.exists =>
        /\ (IsGet(request) /\ respHead # <<>>) => respHead = HeaderFor(request)
        /\ IsHead(request) =>
             /\ respHead # <<>> => respHead = HeaderFor(AsGet(request))
             /\ respBody = <<>>
             /\ ~fileOpened
             /\ connPc # "stream"

C20_Witness ==
    /\ IsHead(request)
    /\ connPc = "closed"
    /\ servedFile.len = 3
    /\ HasRangeValue(BytesRange(0, 1))
    /\ respHead[1] = "HTTP/1.1 206 Partial Content"
    /\ "Content-Length: 2" \in Lines(respHead)
    /\ respBody = <<>>
    /\ ~fileOpened

\* the states of a file server whose accept loop has exited
C21_Inv ==
    /\ \A i \in 1..Len(stopLog) : stopLog[i] \in {"sent", "discarded_err"}
    /\ (serverHandle = "held" /\ Len(stopLog) < MaxStops) => ENABLED ServerStop
    /\ runPc = "exited" =>
         /\ backlog = 0
         /\ ~shutdown.changed
         /\ ~ENABLED ServerAccept
         /\ ~ENABLED ClientConnect
    /\ (runPc = "select" /\ stopLog # <<>>) => ENABLED ServerShutdown

\* one step of a file server, seen from the accept loop
C21_Step ==
    /\ (runPc = "select" /\ shutdown.changed /\ shutdown'.changed = FALSE)
          => runPc' = "exited"
    /\ runPc = "exited" =>
          /\ runPc' = "exited"
          /\ accepted' = accepted
          /\ backlog' = 0
          /\ shutdown' = shutdown
          /\ (connPc = "unused" => connPc' = "unused")

\* C21: every stop() call returns, whatever the number of calls and whether or
\* not the accept loop still runs; the accept loop that observes the change a
\* stop() made exits, and once it has exited no connection is accepted, none
\* waits at the listener, and a further stop() changes nothing.
C21_StopTwiceNoFurtherAccept == []C21_Inv /\ [][C21_Step]_vars

C21_Witness ==
    /\ runPc = "exited"
    /\ stopLog = << "sent", "discarded_err" >>
    /\ accepted = 1
    /\ connPc = "closed"

\* the window of the followed connection: the bytes of the parsed range, or
\* the whole file
ConnWindow ==
    IF range = Nothing THEN FileBytes(0, servedFile.len - 1)
    ELSE FileBytes(range[1][1], range[1][2])

\* the states of a connection that was accepted, whatever the accept loop does
C22_Inv ==
    /\ connPc = "read" => ENABLED ConnRead
    /\ connPc = "stat" => ENABLED ConnStat
    /\ connPc = "body" => ENABLED ConnOpen
    /\ connPc = "stream" => ENABLED ConnChunk
    /\ (connPc = "closed" /\ servedFile.exists /\ ~IsHead(request)
            /\ (range # Nothing => range[1][1] <= range[1][2]))
          => respBody = ConnWindow

\* one step of the file server or of its owner, seen from the connection
C22_Step ==
    (connPc # "unused" /\ listenVars' # listenVars)
        => UNCHANGED <<connPc, range, remaining, filePos, fileOpened, respHead,
                       respBody>>

\* C22: stop(), the exit of the accept loop and the drop of the FileServer leave
\* a connection that was accepted as it is; the handler of a connection that
\* waits for its request, for the metadata, for the file or for the next chunk can
\* take that step, also after the accept loop has exited; and a GET that the
\* handler has finished without an I/O error has received its whole window, also
\* when the loop exited before the handler read the request.
C22_StopLeavesConnections == []C22_Inv /\ [][C22_Step]_vars

C22_Witness ==
    /\ stopLog # <<>>
    /\ runPc = "exited"
    /\ connAtExit = "read"
    /\ connPc = "closed"
    /\ servedFile.len = 3
    /\ range = Some(<< 1, 2 >>)
    /\ respBody = << 1, 2 >>

\* the request with the path of FileServer::url in its request line
WithVideoPath(req) ==
    [req EXCEPT ![1] =
        IF IsHead(req) THEN RequestLineTo(<< "H", "E", "A", "D" >>, VideoPath)
        ELSE RequestLineTo(<< "G", "E", "T" >>, VideoPath)]

\* the body bytes a request for the existing file is answered with
BodyFor(req) ==
    IF IsHead(req) THEN <<>>
    ELSE IF find_map(req, servedFile.len) = Nothing THEN FileBytes(0, servedFile.len - 1)
    ELSE FileBytes(find_map(req, servedFile.len)[1][1], find_map(req, servedFile.len)[1][2])

\* C23: whatever the path of the request line, the response is the response to
\* the same request for /video: the same 404 when the file is missing, and for
\* the one file the server was started with the same header lines and the same
\* body (a prefix of it while it is written or after an I/O error).
C23_PathSelectsNothing ==
    /\ (~servedFile.exists /\ respHead # <<>>) => (respHead = NotFound /\ respBody = <<>>)
    /\ (servedFile.exists /\ respHead # <<>>) =>
          /\ respHead = HeaderFor(WithVideoPath(request))
          /\ IsPrefix(respBody, BodyFor(WithVideoPath(request)))
          /\ (connPc = "closed"
                  /\ (range # Nothing => range[1][1] <= range[1][2]))
                => respBody = BodyFor(WithVideoPath(request))

C23_Witness ==
    /\ request[1] = RequestLineTo(<< "G", "E", "T" >>,
                                  << "/", "e", "t", "c", "/", "p", "a", "s", "s", "w", "d" >>)
    /\ connPc = "closed"
    /\ servedFile.len = 3
    /\ respHead = HeaderFor(<< RequestLine(<< "G", "E", "T" >>), HostLine >>)
    /\ respBody = << 0, 1, 2 >>

\* the line texts that hold the marker with the number n
MarkedLines(n) ==
    {pre \o OutTimeMarker \o Dec(n) \o post :
        pre \in {<<>>, << "x", " " >>}, post \in {<<>>, << " ", "f", "p", "s" >>}}
MarkedNumbers == CutTimes \cup {0}

\* the updates cut_video and cut_video_reencode send without a line
CutFixedUpdates ==
    {CutStartingUpdate, ReencodeStartingUpdate, CutCompleteUpdate}

\* C24: for every line read from ffmpeg that holds out_time_ms=N, one Cutting
\* update was sent whose percent is 0 when the clip duration D is zero or
\* negative, 100 when N >= D > 0, and N*100/D otherwise; for every other line no
\* update was sent; and every update that is not a starting or a Complete update
\* was sent for a line.  This holds in the stream-copy run and in the
\* re-encoding run.
C24_CutPercentOfLine ==
    /\ \A i \in 1..Len(cutLines) :
         /\ \A n \in MarkedNumbers :
              cutLines[i].text \in MarkedLines(n) =>
                 /\ cutLines[i].at \in 1..Len(cutSent)
                 /\ cutSent[cutLines[i].at].stage = "Cutting"
                 /\ IF cutInput.duration_us <= 0
                    THEN cutSent[cutLines[i].at].percent = 0
                    ELSE IF n >= cutInput.duration_us
                    THEN cutSent[cutLines[i].at].percent = 100
                    ELSE cutSent[cutLines[i].at].percent * cutInput.duration_us = n * 100
         /\ (\A n \in MarkedNumbers : cutLines[i].text \notin MarkedLines(n))
               => cutLines[i].at = 0
    /\ \A k \in 1..Len(cutSent) :
         cutSent[k] \notin CutFixedUpdates
            => \E i \in 1..Len(cutLines) : cutLines[i].at = k

C24_Witness ==
    /\ cutInput.duration_us = 200
    /\ Len(cutLines) = 2
    /\ cutLines[1].text = << "x", " " >> \o OutTimeLine(100) \o << " ", "f", "p", "s" >>
    /\ cutSent[cutLines[1].at] = CuttingUpdate(50)
    /\ cutLines[2].text = OutTimeLine(300)
    /\ cutSent[cutLines[2].at] = ReencodingUpdate(100)

\* the value, in tenths, of the percentage a line announces
AnnouncedTenths(n) ==
    IF n = << "0", ".", "0" >> THEN 0
    ELSE IF n = << "4", "2", ".", "5" >> THEN 425
    ELSE IF n \in { << "1", "0", "0" >>, << "1", "0", "0", ".", "0" >> } THEN 1000
    ELSE 1500

\* the lines that hold a percentage marker, and the lines that hold none
LinesAnnouncing(n) ==
    {LineWithAll(n), LineWithoutEta(n), LineWithoutSpeed(n), LineSpeedAtPercent(n)}
LinesWithoutMarker ==
    {line \in OtherDownloadLines : \A k \in 1..Len(line) : line[k] # "%"}

\* C25: for every line read from yt-dlp that holds a percentage with a value in
\* [0,100], one Downloading update was sent whose percent is that value; for
\* every line without a percentage marker no update was sent; and no update was
\* sent that belongs to no line.
C25_DownloadPercentOfLine ==
    /\ \A i \in 1..Len(dlLines) :
         /\ \A n \in PercentNumerals :
              (dlLines[i].text \in LinesAnnouncing(n) /\ AnnouncedTenths(n) <= 1000) =>
                 /\ dlLines[i].at \in 1..Len(dlSent)
                 /\ dlSent[dlLines[i].at].stage = "Downloading"
                 /\ dlSent[dlLines[i].at].percent_tenths = AnnouncedTenths(n)
         /\ dlLines[i].text \in LinesWithoutMarker => dlLines[i].at = 0
    /\ \A k \in 1..Len(dlSent) : \E i \in 1..Len(dlLines) : dlLines[i].at = k

\* C26: the line [download]  42.5% of 10.00MiB at 1.20MiB/s ETA 00:05 has an
\* update with percent 42.5, speed 1.20MiB/s and eta 00:05; a line with a
\* percentage and a speed but no ETA token has an update with that speed and no
\* eta; a line with a percentage and an ETA but no speed token has an update with
\* that eta and no speed.
C26_SpeedAndEtaIndependent ==
    \A i \in 1..Len(dlLines) : \A n \in PercentNumerals :
        /\ dlLines[i].text = LineWithAll(n) =>
              /\ dlLines[i].at \in 1..Len(dlSent)
              /\ dlSent[dlLines[i].at].percent_tenths = AnnouncedTenths(n)
              /\ dlSent[dlLines[i].at].speed = Some(SpeedText)
              /\ dlSent[dlLines[i].at].eta = Some(EtaText)
        /\ dlLines[i].text = LineWithoutEta(n) =>
              /\ dlLines[i].at \in 1..Len(dlSent)
              /\ dlSent[dlLines[i].at].speed = Some(SpeedText)
              /\ dlSent[dlLines[i].at].eta = Nothing
        /\ dlLines[i].text = LineWithoutSpeed(n) =>
              /\ dlLines[i].at \in 1..Len(dlSent)
              /\ dlSent[dlLines[i].at].speed = Nothing
              /\ dlSent[dlLines[i].at].eta = Some(EtaText)

\* the place of a stage in the pipeline order; Error ends a job like Complete
StageRank(stage) ==
    IF stage = "Fetching" THEN 1
    ELSE IF stage = "Downloading" THEN 2
    ELSE IF stage = "Cutting" THEN 3
    ELSE 4

\* C27: in the progress events the host has observed for a job the stages never
\* go backward in the order Fetching, Downloading, Cutting, Complete, and no
\* Downloading or Cutting event follows a Complete or an Error event.
C27_StagesNeverGoBack ==
    \A j \in Jobs :
        \A i \in 1..Len(ProgressOf(j)) : \A k \in (i + 1)..Len(ProgressOf(j)) :
            StageRank(ProgressOf(j)[i].stage) <= StageRank(ProgressOf(j)[k].stage)

\* consecutive updates of one stage carry non-decreasing percent values
PercentNeverDrops(log) ==
    \A i \in 1..(Len(log) - 1) :
        log[i].stage = log[i + 1].stage => log[i].percent <= log[i + 1].percent

\* C28: in the updates a download job sent and in the updates a cut job sent,
\* consecutive updates of the same stage carry non-decreasing percent values,
\* also when the cut job falls back to re-encoding.
C28_PercentMonotoneInStage ==
    /\ \A j \in Jobs : PercentNeverDrops(sentLog[j])
    /\ PercentNeverDrops(cutSent)

\* C29: every update sent by download_video, cut_video and cut_video_reencode
\* has a percent between 0 and 100, whatever the lines of the external process.
C29_PercentInRange ==
    /\ \A k \in 1..Len(dlSent) :
         dlSent[k].percent_tenths >= 0 /\ dlSent[k].percent_tenths <= 1000
    /\ \A k \in 1..Len(cutSent) : cutSent[k].percent >= 0 /\ cutSent[k].percent <= 100
    /\ \A j \in Jobs : \A k \in 1..Len(sentLog[j]) :
         sentLog[j][k].percent >= 0 /\ sentLog[j][k].percent <= 100

\* who holds the slot lock: only a cancel_download call between its take and its
\* abort, whose release is a step it can take; a free lock can be taken by every
\* cancel_download call that has not run yet
C30_Inv ==
    /\ lock \in {Free} \cup Cancels
    /\ lock # Free => (cancelPc[lock] = "abort" /\ ENABLED CancelAbort(lock))
    /\ lock = Free => \A k \in Cancels : cancelPc[k] = "idle" => ENABLED CancelTake(k)

\* one step, seen from the lock: it is taken only by a take on a populated slot,
\* the holder's next step releases it, and the steps of the job (spawn, read,
\* send, wait) leave it as it is
C30_Step ==
    /\ (lock = Free /\ lock' # Free)
          => (lock' \in Cancels /\ cancelPc[lock'] = "idle" /\ cancelPc'[lock'] = "abort")
    /\ lock # Free
          => /\ lock' \in {lock, Free}
             /\ cancelPc'[lock] # cancelPc[lock] => lock' = Free
    /\ \A j \in Jobs :
          (task[j] \in {"start", "read", "wait"} /\ task'[j] # task[j] /\ ~abortReq[j])
              => lock' = lock

\* C30: the slot lock is held only for a check, a take or a store and never
\* across an awaited operation: cancel_download and the slot check of
\* start_download find it free or held by a call that releases it in its next
\* step, also while a job is running.
C30_LockNotHeldAcrossAwait == []C30_Inv /\ [][C30_Step]_vars

C30_Witness ==
    \E k \in Cancels : \E c \in Starts :
        /\ lock = k
        /\ task[cancelHeld[k]] \in {"read", "wait"}
        /\ proc[cancelHeld[k]] = "running"
        /\ startRes[c] = "AlreadyInProgress"

\* the channel of a job in one state: bounded, nothing lost, and the read loop
\* can send its next update exactly when the channel has room
C31_Inv ==
    \A j \in Jobs :
        /\ Len(chan[j]) <= ChannelCapacity
        /\ ChannelProgressOf(j) \o chan[j] = sentLog[j]
        /\ (task[j] = "read" /\ Len(sentLog[j]) < MaxBurst)
              => (ENABLED TaskReadBurst(j) <=> Len(chan[j]) < ChannelCapacity)

\* one step, seen from a full channel: only the forwarding task changes it, by
\* taking its oldest update, and the job stays where it is or ends without sending
C31_Step ==
    \A j \in Jobs :
        Len(chan[j]) = ChannelCapacity
            => /\ chan'[j] \in {chan[j], Tail(chan[j])}
               /\ sentLog'[j] = sentLog[j]

\* C31: the progress channel never holds more than 32 updates; while it is full
\* the job cannot send and waits until the forwarding task has taken an update,
\* no update is dropped or overwritten, and the job can send again as soon as
\* the channel has room.
C31_Backpressure == []C31_Inv /\ [][C31_Step]_vars

C31_Witness ==
    \E j \in Jobs :
        /\ Len(chan[j]) = ChannelCapacity
        /\ task[j] = "read"
        /\ Len(sentLog[j]) > ChannelCapacity
        /\ Len(sentLog[j]) < MaxBurst

\* the ffmpeg runs of the cut job that could not be spawned or whose output
\* could not be read
CutIoErrors ==
    {i \in 1..Len(cutProcs) : cutProcs[i].exit = "spawn_failed" \/ cutProcs[i].read = "error"}

\* the values of Err(AppError::CutError(..)) that cut_video returns
CutErrors ==
    {CutError(text) : text \in {"Input file not found", "Failed to start ffmpeg",
                                "Failed to read ffmpeg output", "Failed to wait for ffmpeg",
                                "ffmpeg encoding failed"}}

\* C32: an I/O error while spawning the external process or reading its stdout
\* ends the job with an error of the job's kind: a cut job whose stream-copy or
\* re-encoding run had such an error starts no further run and returns a
\* CutError, and a download job whose yt-dlp could not be spawned ends with the
\* DownloadError event.
C32_IoErrorEndsJob ==
    /\ \A i \in CutIoErrors :
         /\ i = Len(cutProcs)
         /\ cutPc = "done" => cutRes \in CutErrors
    /\ \A j \in Jobs :
         (task[j] \in {"clear_lock", "finished"} /\ proc[j] = "none")
            => /\ OutcomesOf(j) = ErrorEvents("Failed to start yt-dlp")
               /\ hostEvents[j][Len(hostEvents[j])].name = "download-error"

\* the accept loop in one state: while it runs, a waiting connection can be
\* accepted, whatever became of the connection accepted before
C33_Inv ==
    (runPc = "select" /\ backlog > 0) => (ENABLED ServerAccept /\ ENABLED ServerAcceptFails)

\* one step, seen from the accept loop: it ends only on a stop() it has not seen
\* or on the drop of the FileServer, and a step of a connection's handler, the
\* failing ones included, changes nothing of the loop, the listener or the owner
C33_Step ==
    /\ (runPc = "select" /\ runPc' # "select")
          => (shutdown.changed \/ serverHandle = "dropped")
    /\ (connPc # "unused" /\ connPc' # connPc) => UNCHANGED listenVars
    /\ (runPc = "select" /\ backlog' < backlog /\ ~shutdown.changed
            /\ serverHandle # "dropped")
          => (runPc' = "select" /\ accepted' \in {accepted, accepted + 1})

AnnouncedLength == StatusAndWindow(range, servedFile.len).length

\* the body of a GET in one state: never longer than the announced length, and
\* of that length once the handler has returned without an I/O error
C34_Inv ==
    (respHead # <<>> /\ respHead # NotFound /\ ~IsHead(request))
        => /\ respHead = Header(StatusAndWindow(range, servedFile.len).status_line,
                                ContentType(servedFile.ext), AnnouncedLength)
           /\ AnnouncedLength.pow64 = 0 => Len(respBody) <= AnnouncedLength.plus
           /\ connPc = "closed"
                => (AnnouncedLength.pow64 = 0 /\ Len(respBody) = AnnouncedLength.plus)

\* one step of the streaming loop writes at most one chunk
C34_Step == Len(respBody') <= Len(respBody) + ChunkLen

\* C34: for every GET that completes without an I/O error the number of body
\* bytes written equals the Content-Length of the header and never exceeds it,
\* for every file length, the empty file included, and every Range header; each
\* step writes at most 64 KiB.
C34_BodyMatchesContentLength == []C34_Inv /\ [][C34_Step]_vars

\* a job whose handle a cancel_download call has taken out of the slot
HandleTaken(j) == \E k \in Cancels : cancelHeld[k] = j

\* the slot in one state: it holds the handle of every job whose task is running
\* and whose start_download call has returned Ok, until a cancel takes it
C35_Inv ==
    \A j \in Jobs :
        (TaskLive(j) /\ startRes[j] = "Ok" /\ ~HandleTaken(j)) => active_download = j

\* one step, seen from the slot: the task that clears it finds its own handle
\* there, or none
C35_Step ==
    \A j \in Jobs :
        (task[j] = "clear_lock" /\ task'[j] = "finished") => active_download \in {None, j}

\* C35: the slot tracks the running job: while a job's task is running and the
\* start_download call that created it has returned Ok the slot holds that job's
\* handle, and the slot clear at the end of one job never removes the handle of
\* another job.
C35_SlotTracksRunningJob == []C35_Inv /\ [][C35_Step]_vars

\* C36: a job cannot deadlock with its child over the pipes: while the job waits
\* for output on stdout and there is none, the child has exited or can take a
\* step; it is never blocked writing to the stderr pipe.
C36_NoPipeDeadlock ==
    (pipePc = "read" /\ stdoutPipe = 0)
        => \/ childPc = "exited"
           \/ ENABLED ChildStep
           \/ ENABLED ChildWriteStdout
           \/ ENABLED ChildWriteStderr

\* C37: the download-complete notification of a job is emitted only after the
\* job's Complete 100% progress update has been emitted to the host.
C37_CompleteProgressBeforeResult ==
    \A j \in Jobs : \A i \in 1..Len(hostEvents[j]) :
        hostEvents[j][i].name = "download-complete"
            => \E k \in 1..(i - 1) : hostEvents[j][k] = Event("progress", CompleteUpdate)

\* C38: of the cancel_download calls that race on one active job exactly one
\* takes its handle, aborts it and returns Ok, and every other one finds the slot
\* empty and returns Err(Cancelled): no handle is taken by two calls, a call
\* returns Ok exactly when it took a handle, and with one job started at most
\* one call returns Ok.
C38_OneCancelWins ==
    /\ \A k1, k2 \in Cancels :
         (k1 # k2 /\ cancelHeld[k1] # None) => cancelHeld[k2] # cancelHeld[k1]
    /\ \A k \in Cancels :
         /\ cancelRes[k] = "Ok" => (cancelHeld[k] # None /\ abortReq[cancelHeld[k]])
         /\ cancelRes[k] = "Cancelled" => cancelHeld[k] = None
    /\ Cardinality({k \in Cancels : cancelHeld[k] # None})
          <= Cardinality({c \in Starts : startRes[c] = "Ok" \/ startPc[c] = "store"})
    /\ \A j \in Jobs :
         abortReq[j] => Cardinality({k \in Cancels : cancelRes[k] = "Ok" /\ cancelHeld[k] = j}) = 1

C38_Witness ==
    \E k1, k2 \in Cancels :
        /\ cancelRes[k1] = "Ok"
        /\ cancelRes[k2] = "Cancelled"
        /\ Cardinality({c \in Starts : startPc[c] \in {"store", "done"} /\ startRes[c] # "InvalidUrl"
                                          /\ startRes[c] # "AlreadyInProgress"}) = 1
        /\ ~TaskEnded(cancelHeld[k1])

\* C39: after a stop() call, or after the FileServer value is dropped, the
\* accept loop eventually exits, with or without further connections, also when
\* the stop() came before the loop first looked at the channel.
C39_StopEndsLoop ==
    (stopLog # <<>> \/ serverHandle = "dropped") ~> (runPc = "exited")

C39_Witness ==
    /\ runPc = "exited"
    /\ stopLog = << "sent" >>
    /\ serverHandle = "held"
    /\ accepted = 0
    /\ connAtExit = "unused"

\* C40: the forwarding task of a job terminates after every job end: once the
\* job's task has finished or its abort has been requested, the forwarding task
\* eventually emits what the channel still holds and exits.
C40_ForwardingEnds ==
    \A j \in Jobs :
        ((TaskEnded(j) \/ abortReq[j]) ~> (fwd[j] = "done" /\ chan[j] = <<>>))

C40_Witness ==
    \E j \in Jobs :
        /\ task[j] = "dropped"
        /\ fwd[j] = "done"
        /\ ChannelProgressOf(j) = sentLog[j]
        /\ Len(sentLog[j]) >= 2

====
